---- MODULE Spec2Model ----
\* Verification model of the warlot Go SDK request execution engine:
\* the retrying executors doJSON / doRequest (src/unnamed/part_000), their
\* helpers (src/unnamed/part_011), the streaming RowScanner
\* (src/warlot-go/warlot/stream.go), the Pager, and Migrator.Up
\* (src/warlot-go/warlot/models.go) over Client.ExecSQL.
\* Durations are integers in milliseconds.
EXTENDS Integers, Sequences, FiniteSets, TLC

\* ------------------------------------------------------------------ bounds

\* Largest configured Client.MaxRetries explored.
MaxRetriesBound == 2
\* Number of registered BeforeHooks / AfterHooks when hooks are installed.
NumHooks == 2
\* Largest number of elements in the rows array of a response body.
MaxRows == 2
\* Largest number of Next / Close calls made on one RowScanner.
MaxCalls == 4
\* Largest Pager.Limit explored.
MaxLimit == 2
\* Largest number of Next calls made on one Pager.
MaxPagerCalls == 4
\* Largest length, in bytes, of the API keys built from the key alphabet.
MaxKeyLen == 9
\* Width in bits of the signed integer standing for time.Duration (int64 in
\* the program): durations wrap in two's complement at this width.
DurationBits == 16

\* ------------------------------------------------------- program constants

\* normalizeBackoff defaults, in milliseconds.
DefaultInitialBackoff == 200
DefaultMaxBackoff == 2000
\* http.StatusTooManyRequests
StatusTooManyRequests == 429
\* randFloat64 divides n % 1000 by 1000.0
RandModulus == 1000

VARIABLES
    \* ---- Client configuration and one logical executor call
    cfg,        \* Client fields: MaxRetries, InitialBackoff, MaxBackoff, Logger, nHooks
    call,       \* which executor runs and whether a decode target is supplied
    pc,         \* position of the call: idle, loop, send, sleep, done
    attempt,    \* loop variable attempt
    backoff,    \* local backoff
    maxBack,    \* local maxBack
    retries,    \* local retries
    lastErr,    \* local lastErr
    ret,        \* value returned by the call
    sent,       \* number of HTTPClient.Do calls made
    events,     \* observer invocations (Logger, BeforeHooks, AfterHooks) in order
    lastWait,   \* the most recent jitterSleep, cleared when the next attempt starts
    nWaits,     \* number of jitterSleep calls made
    ctxDone,    \* ctx.Done() is closed
    hist,       \* bookkeeping about the attempts made so far
    opts,       \* the CallOptions of the call, in the order given
    hdr,        \* the http.Header the API method hands to the executor
    reqs,       \* req.Header of every request handed to HTTPClient.Do, in order
    bodies,     \* res.Body of every response received: how far the executor read it, whether it closed it
    \* ---- one streamed response and its RowScanner
    resBody,    \* the response body: its lexemes and how it was built
    bodyOpen,   \* res.Body has not been closed
    closeCount, \* number of Close calls made on res.Body
    avail,      \* lexemes left readable from the decoder's buffer once res.Body is closed
    dec,        \* json.Decoder: scanp, tokenState, tokenStack, err
    sc,         \* RowScanner fields: closer, inRows, done, lastErr
    stream,     \* result of ExecSQLStream: pending, scanner, err
    obs,        \* what the caller saw: rows yielded, last results, number of calls
    \* ---- one Pager
    pg,         \* Pager fields: Limit, Offset, Done
    pgStart,    \* Offset as the caller constructed the Pager
    fetches,    \* the Project.Browse calls made: offset passed, rows returned (-1: error)
    pgLast,     \* the latest Next call: Pager before it, whether it fetched, what it returned
    pgDoneBy,   \* what set Done: none, fetch, caller
    \* ---- one logged request
    apiKey,     \* Client.APIKey as a sequence of bytes
    outgoing,   \* req.Header of the request, once built
    logged,     \* the headers the Logger received with the "request" event
    \* ---- Migrator.Up runs against one project
    fsys,       \* the entries of dir in fsys: name (bytes) and whether it is a directory
    ledger,     \* the ids held by the project's _migrations table
    up,         \* the running Up: position, names, appliedSet, loop index, applied, err
    srv,        \* what the service executed: scripts of earlier runs, of this run, scripts sent again
    sqlCall,    \* the latest Client.ExecSQL call: the answer it got and what it returned
    prevUp,     \* the previous Up run: what it returned and the ledger it left
    upRuns,     \* number of Up calls made
    \* ---- the backoff policy functions on their own
    pol,        \* configured values, normalized values, the latest jittered delay
    \* ---- logical calls running concurrently on one Client
    conc,       \* the Client, the header maps allocated, each call's locals and outcomes
    \* ---- the table a Pager browses
    tbl,        \* number of rows of the table and the service's page cap
    \* ---- helper functions applied to one input
    helper      \* which helper, the input drawn for it, its result

execVars == <<cfg, call, pc, attempt, backoff, maxBack, retries, lastErr, ret,
              sent, events, lastWait, nWaits, ctxDone, hist, opts, hdr, reqs, bodies>>

scanVars == <<resBody, bodyOpen, closeCount, avail, dec, sc, stream, obs>>

pagerVars == <<pg, pgStart, fetches, pgLast, pgDoneBy>>

\* The variables the executor actions leave alone, and those the
\* RowScanner actions leave alone beside the executor's.
logVars == <<apiKey, outgoing, logged>>

migVars == <<fsys, ledger, up, srv, sqlCall, prevUp, upRuns>>

polVars == <<pol>>

concVars == <<conc>>

\* tbl is read by the Pager over a table and never written.
restVars == <<tbl, helper>>

notExecVars == <<scanVars, pagerVars, logVars, migVars, polVars, concVars, restVars>>
notScanVars == <<pagerVars, logVars, migVars, polVars, concVars, restVars>>
notPagerVars == <<execVars, scanVars, logVars, migVars, polVars, concVars, restVars>>
notLogVars == <<execVars, scanVars, pagerVars, migVars, polVars, concVars, restVars>>
notMigVars == <<execVars, scanVars, pagerVars, logVars, polVars, concVars, restVars>>
notPolVars == <<execVars, scanVars, pagerVars, logVars, migVars, concVars, restVars>>
notConcVars == <<execVars, scanVars, pagerVars, logVars, migVars, polVars, restVars>>
notHelperVars == <<execVars, scanVars, pagerVars, logVars, migVars, polVars, concVars, tbl>>

vars == <<execVars, scanVars, pagerVars, logVars, migVars, polVars, concVars, restVars>>

\* ------------------------------------------------------------------ helpers

Max(a, b) == IF a >= b THEN a ELSE b
Min(a, b) == IF a <= b THEN a ELSE b

\* ------------------------------------------------ helpers of part_011

\* A normalization that replaces only negative values.
normalizeBackoff_NegativeOnly(initial, max) ==
    << IF initial < 0 THEN DefaultInitialBackoff ELSE initial,
       IF max < 0 THEN DefaultMaxBackoff ELSE max >>

\* normalizeBackoff(initial, max): <<initial, max>> with defaults for <= 0.
normalizeBackoff(initial, max) ==
    << IF initial <= 0 THEN DefaultInitialBackoff ELSE initial,
       IF max <= 0 THEN DefaultMaxBackoff ELSE max >>

\* normalizeRetries(r)
normalizeRetries(r) == IF r < 0 THEN 0 ELSE r

\* The largest time.Duration, and the two's-complement wrap of an
\* arithmetic result into the range of time.Duration.
MaxDurationValue == 2 ^ (DurationBits - 1) - 1
WrapDuration(x) == ((x + 2 ^ (DurationBits - 1)) % (2 ^ DurationBits)) - 2 ^ (DurationBits - 1)

\* nextBackoff(backoff, maxBack): backoff *= 2 in time.Duration arithmetic,
\* then capped at maxBack.
nextBackoff(b, mx) ==
    LET doubled == WrapDuration(2 * b)
    IN  IF doubled > mx THEN mx ELSE doubled

\* A jitter that is not clamped to maxBack.
jitterDuration_Unclamped(b, mx, m) == (b * (RandModulus + m)) \div (2 * RandModulus)

\* The duration jitterSleep arms its timer with; m is (n % 1000) of
\* randFloat64, so randFloat64() = m / 1000 and the factor is 0.5 + 0.5*m/1000.
\* The conversion to time.Duration truncates. The floating-point product is
\* taken as exact: float64 rounding can only move the result by one tick
\* where the exact product is a whole number.
jitterDuration(b, mx, m) ==
    LET j == IF b >= 0 THEN (b * (RandModulus + m)) \div (2 * RandModulus)
             ELSE 0 - (((0 - b) * (RandModulus + m)) \div (2 * RandModulus))
    IN  IF j > mx THEN mx ELSE j

\* parseRetryAfter(v). A header value is modelled by its form:
\*   empty; secs n (what strconv.Atoi accepts); date d (an HTTP-date lying d ms
\*   after time.Now()); junk (anything else).
parseRetryAfter(v) ==
    CASE v.form = "empty" -> 0
      [] v.form = "secs"  -> IF v.n >= 0 THEN WrapDuration(v.n * 1000) ELSE 0
      [] v.form = "date"  -> IF v.n > 0 THEN v.n ELSE 0
      [] OTHER            -> 0

\* statusOf(res)
statusOf(o) == IF o.t = "err" THEN 0 ELSE o.status

\* ------------------------------------------------------------ error values

\* An error value: k is its dynamic kind (none, transport, api, decode),
\* wrapped says it went through fmt.Errorf("...: %w", ...), so that its
\* dynamic type is no longer *APIError; at is the attempt that produced it.
NoErr == [k |-> "none", status |-> 0, body |-> "empty", cause |-> "none", at |-> -1, wrapped |-> FALSE]

\* parseAPIError(code, b): the *APIError for a non-2xx response; StatusCode
\* and Body are always kept.
parseAPIError(code, b) ==
    [k |-> "api", status |-> code, body |-> b, cause |-> "none", at |-> -1, wrapped |-> FALSE]

\* fmt.Errorf("%s %s: %w", method, u, err) around a transport error.
TransportErr(cause) ==
    [k |-> "transport", status |-> 0, body |-> "empty", cause |-> cause, at |-> -1, wrapped |-> TRUE]

\* fmt.Errorf("decode response: %w (body=%s)", err, string(body))
DecodeErr(b) ==
    [k |-> "decode", status |-> 0, body |-> b, cause |-> "none", at |-> -1, wrapped |-> TRUE]

\* fmt.Errorf("%s %s: %w", method, u, apiErr)
Wrap(e) == [e EXCEPT !.wrapped = TRUE]

\* The error e, marked as produced by attempt a.
At(e, a) == [e EXCEPT !.at = a]

\* Return values of a call.
Pending == [k |-> "pending", err |-> NoErr, attempts |-> 0]
RetNil == [k |-> "nil", err |-> NoErr, attempts |-> 0]
\* return apiErr / return err: the error itself.
RetErr(e) == [k |-> "err", err |-> e, attempts |-> 0]
\* fmt.Errorf("warlot request failed after %d attempts: %w", retries+1, lastErr)
RetExhausted(n, e) == [k |-> "exhausted", err |-> e, attempts |-> n]

\* ------------------------------------------------------------ input sets

RetryCounts == (-1) .. MaxRetriesBound
\* <<InitialBackoff, MaxBackoff>> pairs: unset (defaults), a narrow window,
\* and an initial value above the maximum.
BackoffConfigs == { <<0, 0>>, <<100, 200>>, <<300, 100>> }
ObserverConfigs == { [Logger |-> FALSE, nHooks |-> 0], [Logger |-> TRUE, nHooks |-> NumHooks] }

\* Client.APIKey, HolderID, ProjectName: none set, all set, the key alone.
Credentials ==
    { [APIKey |-> "", HolderID |-> "", ProjectName |-> ""],
      [APIKey |-> "key-1", HolderID |-> "holder-1", ProjectName |-> "project-1"],
      [APIKey |-> "key-1", HolderID |-> "", ProjectName |-> ""] }

\* Client.UserAgent as New sets it (client.go line 71).
DefaultUserAgent == "warlot-go/0.2"

Configs ==
    { [MaxRetries |-> r, InitialBackoff |-> b[1], MaxBackoff |-> b[2],
       Logger |-> o.Logger, nHooks |-> o.nHooks,
       APIKey |-> a.APIKey, HolderID |-> a.HolderID, ProjectName |-> a.ProjectName,
       UserAgent |-> DefaultUserAgent] :
        r \in RetryCounts, b \in BackoffConfigs, o \in ObserverConfigs, a \in Credentials }

\* ---------------------------------------------------------------- headers

\* An http.Header: a function from the canonical header names it holds to
\* the sequence of values of each.
EmptyHeader == [k \in {} |-> << >>]

\* textproto.CanonicalMIMEHeaderKey on the header names the SDK uses.
CanonicalKey(k) ==
    CASE k \in {"x-api-key", "X-Api-Key", "X-API-KEY"} -> "X-Api-Key"
      [] k \in {"x-holder-id", "X-Holder-Id"} -> "X-Holder-Id"
      [] k \in {"x-project-name", "X-Project-Name"} -> "X-Project-Name"
      [] k \in {"x-idempotency-key", "X-Idempotency-Key"} -> "X-Idempotency-Key"
      [] k \in {"x-extra", "X-Extra"} -> "X-Extra"
      [] k \in {"content-type", "Content-Type"} -> "Content-Type"
      [] k \in {"user-agent", "User-Agent"} -> "User-Agent"
      [] OTHER -> k

\* http.Header.Set
HeaderSet(h, k, v) ==
    [x \in DOMAIN h \cup {CanonicalKey(k)} |-> IF x = CanonicalKey(k) THEN << v >> ELSE h[x]]

\* http.Header.Add
HeaderAdd(h, k, v) ==
    [x \in DOMAIN h \cup {CanonicalKey(k)} |->
        IF x = CanonicalKey(k)
        THEN (IF x \in DOMAIN h THEN Append(h[x], v) ELSE << v >>)
        ELSE h[x]]

\* http.Header.Values and http.Header.Get
HeaderValues(h, k) == IF CanonicalKey(k) \in DOMAIN h THEN h[CanonicalKey(k)] ELSE << >>
HeaderGet(h, k) == IF HeaderValues(h, k) = << >> THEN "" ELSE HeaderValues(h, k)[1]

\* mergeHeaders(dst, src): every value of src added to dst (part_011 lines 392-401).
mergeHeaders(dst, src) ==
    [x \in DOMAIN dst \cup DOMAIN src |->
        (IF x \in DOMAIN dst THEN dst[x] ELSE << >>)
            \o (IF x \in DOMAIN src THEN src[x] ELSE << >>)]

\* Client.authHeaders (part_011 lines 364-376)
authHeaders(c) ==
    LET h1 == IF c.APIKey # "" THEN HeaderSet(EmptyHeader, "x-api-key", c.APIKey)
              ELSE EmptyHeader
        h2 == IF c.HolderID # "" THEN HeaderSet(h1, "x-holder-id", c.HolderID) ELSE h1
    IN  IF c.ProjectName # "" THEN HeaderSet(h2, "x-project-name", c.ProjectName) ELSE h2

\* CallOptions (part_004 lines 84-106).
WithIdempotencyKey(k) == [opt |-> "idempotency", key |-> "x-idempotency-key", value |-> k]
WithHeader(k, v) == [opt |-> "header", key |-> k, value |-> v]
WithLabel(l) == [opt |-> "label", key |-> "", value |-> l]

RECURSIVE ApplyOptions(_, _)
\* The loop of buildHeaders over the options (part_011 lines 379-383): the
\* headers field of callOptions after every option ran.
ApplyOptions(os, h) ==
    IF os = << >> THEN h
    ELSE LET o == os[1]
             h1 == CASE o.opt = "idempotency" -> HeaderSet(h, o.key, o.value)
                     [] o.opt = "header" -> HeaderAdd(h, o.key, o.value)
                     [] OTHER -> h
         IN  ApplyOptions(Tail(os), h1)

\* buildHeaders(nil, opts...) (part_011 lines 379-389)
buildHeaders(os) == mergeHeaders(EmptyHeader, ApplyOptions(os, EmptyHeader))

\* The header an API method builds for its executor call:
\* h := c.authHeaders(); mergeHeaders(h, buildHeaders(nil, opts...))
CallHeaders(c, os) == mergeHeaders(authHeaders(c), buildHeaders(os))

\* A request build that leaves the caller's headers out.
AddCallHeaders_Dropped(h, src) == h

\* for k, vs := range hdr { for _, v := range vs { req.Header.Add(k, v) } }
\* (part_000 lines 46-50 and 147-151)
AddCallHeaders(h, src) == mergeHeaders(h, src)

\* req.Header as the loop body builds it (part_000 lines 42-50, 143-151).
RequestHeader(c, src) ==
    LET h1 == HeaderSet(EmptyHeader, "Content-Type", "application/json")
        h2 == IF c.UserAgent # "" THEN HeaderSet(h1, "User-Agent", c.UserAgent) ELSE h1
    IN  AddCallHeaders(h2, src)

\* The option lists explored: none, an idempotency key, an idempotency
\* key with a label and an extra header.
OptionLists ==
    { << >>,
      << WithIdempotencyKey("idem-1") >>,
      << WithLabel("l"), WithIdempotencyKey("idem-1"), WithHeader("x-extra", "1") >> }

NoHeader == [form |-> "empty", n |-> 0]
RetryAfterHeaders == { NoHeader, [form |-> "secs", n |-> 1], [form |-> "date", n |-> 50] }

\* What HTTPClient.Do can produce for one attempt.
TransportOutcome(cause) == [t |-> "err", cause |-> cause, status |-> 0, body |-> "empty", ra |-> NoHeader]
Response(status, body, ra) == [t |-> "res", cause |-> "none", status |-> status, body |-> body, ra |-> ra]

RetryableOutcomes ==
    { TransportOutcome("net") }
    \cup { Response(StatusTooManyRequests, "good", h) : h \in RetryAfterHeaders }
    \cup { Response(503, "bad", NoHeader), Response(500, "good", [form |-> "secs", n |-> 1]) }

TerminalOutcomes ==
    { Response(200, "good", NoHeader), Response(200, "bad", NoHeader),
      Response(204, "empty", NoHeader), Response(400, "good", NoHeader),
      Response(404, "bad", NoHeader), Response(304, "empty", NoHeader) }

\* With the context cancelled, Do fails with the context's error.
Outcomes(cancelled) ==
    IF cancelled THEN { TransportOutcome("ctx") }
    ELSE RetryableOutcomes \cup TerminalOutcomes

\* What io.ReadAll(res.Body) leaves of a body b when the context is
\* cancelled during the read: nothing, or a part of b that is no JSON text.
PartialBodies(b) == IF b = "empty" THEN {"empty"} ELSE {"empty", "bad"}

\* body, _ = io.ReadAll(res.Body) on the outcome o of Do (part_000 lines 64
\* and 168): the outcome as the executor sees it and whether the context
\* was cancelled during the read; the read error is discarded.
ReadAll(o, cancelled) ==
    { [o |-> o, cut |-> FALSE] }
    \cup (IF o.t = "res" /\ ~cancelled
          THEN { [o |-> [o EXCEPT !.body = b], cut |-> TRUE] : b \in PartialBodies(o.body) }
          ELSE {})

\* Samples of n % 1000 in randFloat64.
RandSamples == { 0, 999 }

\* A status test that also retries every 4xx.
isRetryableStatus_All4xx(code) == code \div 100 = 4 \/ code \div 100 = 5

\* The retryable statuses, as tested in part_000 lines 89 and 175.
isRetryableStatus(code) == code = StatusTooManyRequests \/ code \div 100 = 5

\* A success test that accepts 200 alone.
is2xx_Only200(code) == code = 200

\* res.StatusCode/100 == 2 (part_000 lines 77 and 162).
is2xx(code) == code \div 100 = 2

\* An override that takes every positive Retry-After, also a shorter one.
RetryAfterBackoff_Always(ra, b) == IF ra > 0 THEN ra ELSE b

\* if ra := parseRetryAfter(...); ra > 0 && ra > backoff { backoff = ra }
\* (part_000 lines 91-93 and 177-179): the backoff after the override.
RetryAfterBackoff(ra, b) == IF ra > 0 /\ ra > b THEN ra ELSE b

\* A sleep that also follows the last attempt.
SleepCond_AfterLast(a, r) == a <= r

\* if attempt < retries { jitterSleep; nextBackoff } (part_000 lines 105, 185).
SleepCond(a, r) == a < r

\* A loop condition that runs one attempt too many.
LoopCond_OffByOne(a, r) == a <= r + 1

\* The loop condition attempt <= retries (part_000 lines 33 and 134).
LoopCond(a, r) == a <= r

\* ------------------------------------------------------------- observers

Ev(name, a, i) == [ev |-> name, attempt |-> a, i |-> i]

HookEvents(name, a, n) == [i \in 1 .. n |-> Ev(name, a, i)]

\* c.Logger("request", ...) then every BeforeHook, in registration order.
RequestSide(a) ==
    (IF cfg.Logger THEN << Ev("request", a, 0) >> ELSE << >>)
        \o HookEvents("before", a, cfg.nHooks)

\* A response side that runs the AfterHooks before the Logger.
ResponseSide_HooksFirst(a) ==
    HookEvents("after", a, cfg.nHooks)
        \o (IF cfg.Logger THEN << Ev("response", a, 0) >> ELSE << >>)

\* c.Logger("response", ...) then every AfterHook, in registration order.
ResponseSide(a) ==
    (IF cfg.Logger THEN << Ev("response", a, 0) >> ELSE << >>)
        \o HookEvents("after", a, cfg.nHooks)

NoWait == [valid |-> FALSE, backoff |-> 0, policy |-> 0, ra |-> 0, jitter |-> 0,
           waited |-> 0, interrupted |-> FALSE, after |-> -1]

\* Bookkeeping: allRetryable: every attempt so far failed retryably; last: the
\* outcome of the latest attempt; policy / ra: the backoff before the
\* Retry-After override of the latest attempt and the parsed Retry-After;
\* got2xx / first2xx / sentAt2xx: a 2xx response was received, the first
\* one, and the number of requests made when it arrived;
\* cancelledAt / attemptAtCancel / eventsAtCancel: where the call was when
\* the context was cancelled, and attempt and Len(events) at that moment.
InitHist == [allRetryable |-> TRUE, last |-> TransportOutcome("none"), policy |-> 0, ra |-> 0,
             got2xx |-> FALSE, first2xx |-> TransportOutcome("none"), sentAt2xx |-> 0,
             cancelledAt |-> "none", attemptAtCancel |-> 0, eventsAtCancel |-> 0]

\* ------------------------------------------------------------------- Init

InitExec ==
    /\ cfg \in Configs
    /\ call = [fn |-> "none", out |-> FALSE]
    /\ pc = "idle"
    /\ attempt = 0
    /\ backoff = 0
    /\ maxBack = 0
    /\ retries = 0
    /\ lastErr = NoErr
    /\ ret = Pending
    /\ sent = 0
    /\ events = << >>
    /\ lastWait = NoWait
    /\ nWaits = 0
    /\ ctxDone = FALSE
    /\ hist = InitHist
    /\ opts = << >>
    /\ hdr = EmptyHeader
    /\ reqs = << >>
    /\ bodies = << >>

\* No streamed response is being read.
ScanIdle ==
    /\ resBody = [lex |-> << >>, kind |-> "none", pre |-> 0, k |-> 0, open |-> 0, close |-> 0]
    /\ bodyOpen = FALSE
    /\ closeCount = 0
    /\ avail = 0
    /\ dec = [pos |-> 0, tokenState |-> "TopValue", tokenStack |-> << >>, err |-> "none"]
    /\ sc = [closer |-> FALSE, inRows |-> FALSE, done |-> FALSE, lastErr |-> "none"]
    /\ stream = "none"
    /\ obs = [yielded |-> << >>, lastNext |-> "none", sawFalse |-> FALSE,
              trueAfterFalse |-> FALSE, lastClose |-> "none", calls |-> 0, lastOp |-> "none"]

\* No Pager is in use.
PagerIdle ==
    /\ pg = [Limit |-> 0, Offset |-> 0, Done |-> FALSE]
    /\ pgStart = 0
    /\ fetches = << >>
    /\ pgLast = [called |-> FALSE, before |-> pg, fetched |-> FALSE, ret |-> "none", rows |-> 0]
    /\ pgDoneBy = "none"

\* No request is being logged byte by byte.
LogIdle ==
    /\ apiKey = << >>
    /\ outgoing = EmptyHeader
    /\ logged = EmptyHeader

\* No Migrator.Up has been called.
UpIdle == [pc |-> "idle", names |-> << >>, appliedSet |-> {}, i |-> 0,
           applied |-> << >>, err |-> "nil", failedAt |-> << >>, before |-> {}]
NoSQLCall == [stmt |-> "none", doErr |-> FALSE, ok |-> FALSE, error |-> "", errNil |-> TRUE]
NoPrevUp == [valid |-> FALSE, applied |-> << >>, err |-> "nil", failedAt |-> << >>,
             ledger |-> {}]
NothingRun == [ranBefore |-> {}, ranNow |-> << >>, sentNow |-> << >>, sentAgain |-> {},
               unreported |-> FALSE]
MigIdle ==
    /\ fsys = {}
    /\ ledger = {}
    /\ up = UpIdle
    /\ srv = NothingRun
    /\ sqlCall = NoSQLCall
    /\ prevUp = NoPrevUp
    /\ upRuns = 0

\* The policy functions are not being exercised on their own.
PolIdle ==
    pol = [stage |-> "none", InitialBackoff |-> 0, MaxBackoff |-> 0, MaxRetries |-> 0,
           initial |-> 0, backoff |-> 0, maxBack |-> 0, retries |-> 0, m |-> 0, jitter |-> 0,
           waits |-> 0, prev |-> 0]

\* No concurrent calls are modelled, no table is browsed, no helper is
\* applied on its own.
ConcIdle == conc = [on |-> FALSE]
TableIdle == tbl = [rows |-> 0, cap |-> 0]
HelperIdle == helper = [f |-> "none"]
RestIdle == ConcIdle /\ TableIdle /\ HelperIdle

Init == InitExec /\ ScanIdle /\ PagerIdle /\ LogIdle /\ MigIdle /\ PolIdle /\ RestIdle

\* --------------------------------------------------------------- executor

\* An API method builds the call's headers and enters doJSON / doRequest,
\* up to the loop head (tables.go lines 37-39, stream.go lines 86-88;
\* part_000 lines 29-31, 130-132).
Start(c) ==
    /\ pc = "idle"
    /\ call' = c
    /\ \E os \in OptionLists :
         /\ opts' = os
         /\ hdr' = CallHeaders(cfg, os)
    /\ UNCHANGED <<reqs, bodies>>
    /\ backoff' = normalizeBackoff(cfg.InitialBackoff, cfg.MaxBackoff)[1]
    /\ maxBack' = normalizeBackoff(cfg.InitialBackoff, cfg.MaxBackoff)[2]
    /\ retries' = normalizeRetries(cfg.MaxRetries)
    /\ attempt' = 0
    /\ pc' = "loop"
    /\ UNCHANGED notExecVars
    /\ UNCHANGED <<cfg, lastErr, ret, sent, events, lastWait, nWaits, ctxDone, hist>>

StartDoJSON == \E o \in BOOLEAN : Start([fn |-> "doJSON", out |-> o])

StartDoRequest == Start([fn |-> "doRequest", out |-> FALSE])

\* Loop head of either executor: the loop condition, the request build and
\* the request-side observers (part_000 lines 33-58, 134-159).
BeginAttempt(fn) ==
    /\ call.fn = fn
    /\ pc = "loop"
    /\ LoopCond(attempt, retries)
    /\ events' = events \o RequestSide(attempt)
    /\ lastWait' = NoWait
    /\ pc' = "send"
    /\ UNCHANGED notExecVars
    /\ UNCHANGED <<cfg, call, attempt, backoff, maxBack, retries, lastErr, ret,
                   sent, nWaits, ctxDone, hist, opts, hdr, reqs, bodies>>

DoJSON_Begin == BeginAttempt("doJSON")

DoRequest_Begin == BeginAttempt("doRequest")

\* The test of part_000 line 100 as errors.As without the status test
\* would make it: every error that holds an APIError ends the loop.
IsNonRetryableAPIError_AnyAPIError(e) == e.k = "api"

\* The type assertion of part_000 line 100: lastErr.(*APIError) with a
\* status that is not retryable.
IsNonRetryableAPIError(e) ==
    e.k = "api" /\ ~e.wrapped /\ ~isRetryableStatus(e.status)

\* The outcome o was a retryable failure.
FailedRetryably(o) == o.t = "err" \/ o.status = 429 \/ o.status \in 500 .. 599

HistAfter(o, policy, ra) ==
    [hist EXCEPT !.allRetryable = @ /\ FailedRetryably(o),
                 !.last = o, !.policy = policy, !.ra = ra,
                 !.got2xx = @ \/ (o.t = "res" /\ o.status \div 100 = 2),
                 !.first2xx = IF ~hist.got2xx /\ o.t = "res" /\ o.status \div 100 = 2
                              THEN o ELSE @,
                 !.sentAt2xx = IF ~hist.got2xx /\ o.t = "res" /\ o.status \div 100 = 2
                               THEN sent + 1 ELSE @]

\* res.Body of a response with the given status that the executor has
\* neither read nor closed.
Unread(status) == [status |-> status, read |-> "unread", closed |-> FALSE]

\* A failure path that reads the body and leaves it open.
ReadAndClose_NoClose(rd) ==
    [status |-> rd.o.status, read |-> IF rd.cut THEN "partial" ELSE "full", closed |-> FALSE]

\* body, _ = io.ReadAll(res.Body); res.Body.Close() (part_000 lines 167-170):
\* the body is read to its end, or to the read error of a cancelled
\* context, and closed.
ReadAndClose(rd) ==
    [status |-> rd.o.status, read |-> IF rd.cut THEN "partial" ELSE "full", closed |-> TRUE]

\* defer res.Body.Close() (part_000 line 63) followed by io.ReadAll: the
\* body is read and stays open until doJSON returns.
ReadDeferClose(rd) ==
    [status |-> rd.o.status, read |-> IF rd.cut THEN "partial" ELSE "full", closed |-> FALSE]

\* The deferred Close calls run when doJSON returns.
RunDeferred(bs) == [i \in 1 .. Len(bs) |-> [bs[i] EXCEPT !.closed = TRUE]]

\* The bookkeeping h, with the cancellation noted when the context was
\* cancelled during the body read of this attempt.
CancelledInRead(h, cut) ==
    IF cut THEN [h EXCEPT !.cancelledAt = "read", !.attemptAtCancel = attempt,
                          !.eventsAtCancel = Len(events)]
    ELSE h

\* The end of the loop body when the attempt failed with error e and the
\* loop goes on: sleep if attempt < retries (lines 105, 185), then the loop
\* increment and condition, and the return after the loop (lines 111, 190).
EndOfBody(e) ==
    IF SleepCond(attempt, retries)
    THEN ret' = ret /\ pc' = "sleep" /\ attempt' = attempt
    ELSE IF LoopCond(attempt + 1, retries)
    THEN ret' = ret /\ pc' = "loop" /\ attempt' = attempt + 1
    ELSE /\ ret' = RetExhausted(retries + 1, e)
         /\ pc' = "done"
         /\ attempt' = attempt + 1

\* json.Unmarshal(body, out) fails.
UnmarshalFails(o) == o.body = "bad"

\* doJSON from HTTPClient.Do to the end of the loop body (part_000 lines 60-111).
DoJSON_Send ==
    /\ call.fn = "doJSON"
    /\ pc = "send"
    /\ \E done \in Outcomes(ctxDone) : \E rd \in ReadAll(done, ctxDone) :
        LET o == rd.o
            ra == parseRetryAfter(o.ra)
            apiErr == At(parseAPIError(o.status, o.body), attempt)
            ok == o.t = "res" /\ is2xx(o.status)
            \* lines 75-97: "nil", "apiErr" or "continue"
            step == CASE o.t = "err" -> "continue"
                      [] ok -> IF call.out /\ o.body # "empty"
                                  THEN (IF UnmarshalFails(o) THEN "continue" ELSE "nil")
                                  ELSE "nil"
                      [] OTHER -> IF isRetryableStatus(o.status) THEN "continue" ELSE "apiErr"
            newErr == CASE o.t = "err" -> At(TransportErr(o.cause), attempt)
                        [] ok -> At(DecodeErr(o.body), attempt)
                        [] OTHER -> Wrap(apiErr)
            newBackoff == IF o.t = "res" /\ ~ok /\ isRetryableStatus(o.status)
                          THEN RetryAfterBackoff(ra, backoff) ELSE backoff
        IN  /\ sent' = sent + 1
            /\ events' = events \o ResponseSide(attempt)
            /\ ctxDone' = (ctxDone \/ rd.cut)
            /\ hist' = CancelledInRead(HistAfter(o, backoff, IF o.t = "res" THEN ra ELSE 0),
                                       rd.cut)
            /\ CASE step = "nil" ->
                      /\ ret' = RetNil /\ pc' = "done"
                      /\ UNCHANGED <<lastErr, backoff, attempt>>
                 [] step = "apiErr" ->
                      /\ ret' = RetErr(apiErr) /\ pc' = "done"
                      /\ UNCHANGED <<lastErr, backoff, attempt>>
                 [] OTHER ->
                      /\ lastErr' = newErr
                      /\ backoff' = newBackoff
                      /\ IF IsNonRetryableAPIError(newErr)
                         THEN ret' = RetErr(newErr) /\ pc' = "done" /\ attempt' = attempt
                         ELSE EndOfBody(newErr)
            /\ LET bs == IF o.t = "res" THEN Append(bodies, ReadDeferClose(rd)) ELSE bodies
               IN  bodies' = IF pc' = "done" THEN RunDeferred(bs) ELSE bs
    /\ UNCHANGED notExecVars
    /\ reqs' = Append(reqs, RequestHeader(cfg, hdr))
    /\ UNCHANGED <<cfg, call, maxBack, retries, lastWait, nWaits, opts, hdr>>

\* return res, nil (part_000 line 163): the response goes to the caller
\* with its body open; ExecSQLStream has it next (stream.go lines 88-92).
\* doRequest has not looked at the body's content.
HandOver ==
    /\ stream' = "pending"
    /\ bodyOpen' = TRUE
    /\ UNCHANGED <<resBody, closeCount, avail, dec, sc, obs>>
    /\ UNCHANGED notScanVars

\* doRequest from HTTPClient.Do to the end of the loop body (part_000 lines 161-190).
DoRequest_Send ==
    /\ call.fn = "doRequest"
    /\ pc = "send"
    /\ \E done \in Outcomes(ctxDone) :
      \E rd \in (IF done.t = "res" /\ is2xx(done.status)
                 THEN { [o |-> done, cut |-> FALSE] }
                 ELSE ReadAll(done, ctxDone)) :
        LET o == rd.o
            ra == parseRetryAfter(o.ra)
            apiErr == At(parseAPIError(o.status, o.body), attempt)
            ok == o.t = "res" /\ is2xx(o.status)
        IN  /\ sent' = sent + 1
            /\ ctxDone' = (ctxDone \/ rd.cut)
            /\ hist' = CancelledInRead(HistAfter(o, backoff, IF o.t = "res" THEN ra ELSE 0),
                                       rd.cut)
            /\ UNCHANGED events
            /\ bodies' = CASE ok -> Append(bodies, Unread(o.status))
                            [] o.t = "res" -> Append(bodies, ReadAndClose(rd))
                            [] OTHER -> bodies
            /\ IF ok THEN HandOver ELSE UNCHANGED notExecVars
            /\ IF ok
               THEN /\ ret' = RetNil /\ pc' = "done"
                    /\ UNCHANGED <<lastErr, backoff, attempt>>
               ELSE IF o.t = "res" /\ ~isRetryableStatus(o.status)
               THEN /\ ret' = RetErr(apiErr) /\ pc' = "done"
                    /\ UNCHANGED <<lastErr, backoff, attempt>>
               ELSE /\ lastErr' = (IF o.t = "err" THEN At(TransportErr(o.cause), attempt)
                                   ELSE Wrap(apiErr))
                    /\ backoff' = (IF o.t = "res" THEN RetryAfterBackoff(ra, backoff)
                                   ELSE backoff)
                    /\ EndOfBody(lastErr')
    /\ reqs' = Append(reqs, RequestHeader(cfg, hdr))
    /\ UNCHANGED <<cfg, call, maxBack, retries, lastWait, nWaits, opts, hdr>>

\* jitterSleep followed by nextBackoff and the loop increment
\* (part_000 lines 105-108 and 185-188; part_011 lines 504-515).
\* With the context done the select returns at once; a cancellation that
\* arrives during the wait cuts it short.
SleepStep(fn) ==
    /\ call.fn = fn
    /\ pc = "sleep"
    /\ \E m \in RandSamples :
        LET jitter == jitterDuration(backoff, maxBack, m)
        IN  lastWait' = [valid |-> TRUE, backoff |-> backoff, policy |-> hist.policy,
                         ra |-> hist.ra, jitter |-> jitter,
                         waited |-> IF ctxDone THEN 0 ELSE jitter,
                         interrupted |-> ctxDone, after |-> attempt]
    /\ nWaits' = nWaits + 1
    /\ backoff' = nextBackoff(backoff, maxBack)
    /\ attempt' = attempt + 1
    /\ pc' = "loop"
    /\ UNCHANGED notExecVars
    /\ UNCHANGED <<cfg, call, maxBack, retries, lastErr, ret, sent, events, ctxDone, hist,
                   opts, hdr, reqs, bodies>>

DoJSON_Sleep == SleepStep("doJSON")

DoRequest_Sleep == SleepStep("doRequest")

\* The caller's context is cancelled, or its deadline expires, while the
\* call is suspended in the network send or in the backoff sleep.
Cancel ==
    /\ pc \in {"send", "sleep"}
    /\ ~ctxDone
    /\ ctxDone' = TRUE
    /\ hist' = [hist EXCEPT !.cancelledAt = pc, !.attemptAtCancel = attempt,
                            !.eventsAtCancel = Len(events)]
    /\ UNCHANGED notExecVars
    /\ UNCHANGED <<cfg, call, pc, attempt, backoff, maxBack, retries, lastErr, ret,
                   sent, events, lastWait, nWaits, opts, hdr, reqs, bodies>>

NextExec ==
    \/ StartDoJSON
    \/ StartDoRequest
    \/ DoJSON_Begin
    \/ DoJSON_Send
    \/ DoJSON_Sleep
    \/ DoRequest_Begin
    \/ DoRequest_Send
    \/ DoRequest_Sleep
    \/ Cancel

Next == NextExec

Spec == Init /\ [][Next]_vars

\* ------------------------------------------------------- response bodies

\* Lexemes of a JSON text: punctuation, string literals, other literals
\* (numbers, true, false, null) and a byte that starts no JSON token.
P(c) == [t |-> "p", v |-> c]
S(v) == [t |-> "s", v |-> v]
L(v) == [t |-> "l", v |-> v]
J == [t |-> "j", v |-> "?"]
NoTok == [t |-> "none", v |-> "none"]

\* One row object {"id": i}.
Row(i) == << P("{"), S("id"), P(":"), L(ToString(i)), P("}") >>

RECURSIVE Rows(_)
\* k row objects separated by commas.
Rows(k) ==
    IF k = 0 THEN << >>
    ELSE Rows(k - 1) \o (IF k > 1 THEN << P(",") >> ELSE << >>) \o Row(k)

\* Fields sent before the rows field: none; "ok":true; a string field whose
\* value is "rows"; a nested object that has its own rows key.
Preambles ==
    << << >>,
       << S("ok"), P(":"), L("true"), P(",") >>,
       << S("error"), P(":"), S("rows"), P(",") >>,
       << S("meta"), P(":"), P("{"), S("rows"), P(":"), L("0"), P("}"), P(",") >> >>

\* Fields sent after the rows field.
Postambles == << << >>, << P(","), S("row_count"), P(":"), L("9") >> >>

\* {<preamble> "rows": [<k rows>] <postamble>}; open and close are the
\* positions of the brackets of the top-level rows array.
WellFormedBody(p, k, q) ==
    LET head == << P("{") >> \o Preambles[p] \o << S("rows"), P(":"), P("[") >>
    IN  [lex |-> head \o Rows(k) \o << P("]") >> \o Postambles[q] \o << P("}") >>,
         kind |-> "wf", pre |-> p, k |-> k,
         open |-> Len(head), close |-> Len(head) + Len(Rows(k)) + 1]

WellFormedBodies ==
    { WellFormedBody(p, k, q) :
        p \in 1 .. Len(Preambles), k \in 0 .. MaxRows, q \in 1 .. Len(Postambles) }

\* The body cut off after its first n lexemes.
Truncated(b, n) == [b EXCEPT !.lex = SubSeq(b.lex, 1, n), !.kind = "trunc"]

\* The body with its i-th lexeme replaced by a stray byte.
Garbled(b, i) == [b EXCEPT !.lex[i] = J, !.kind = "garbled"]

Plain(lex, kind) == [lex |-> lex, kind |-> kind, pre |-> 0, k |-> 0, open |-> 0, close |-> 0]

\* Bodies that are no response object with a rows array: no rows field, no
\* rows field but a nested object with a rows array, a
\* rows field that holds a number or an object, a top-level array, a
\* top-level literal; and arrays with an element that is no object or with
\* a missing comma.
OtherBodies ==
    { Plain(<< P("{"), S("ok"), P(":"), L("true"), P("}") >>, "norows"),
      Plain(<< P("{"), S("meta"), P(":"), P("{"), S("rows"), P(":"), P("[") >> \o Row(1)
                \o << P("]"), P("}"), P("}") >>, "norows"),
      Plain(<< P("{"), S("rows"), P(":"), L("5"), P("}") >>, "notarray"),
      Plain(<< P("{"), S("rows"), P(":"), P("{"), P("}"), P("}") >>, "notarray"),
      Plain(<< P("["), P("]") >>, "notobject"),
      Plain(<< L("true") >>, "notobject"),
      [lex |-> << P("{"), S("rows"), P(":"), P("["), L("7"), P(",") >> \o Row(1)
                  \o << P("]"), P("}") >>,
       kind |-> "mixed", pre |-> 1, k |-> 2, open |-> 4, close |-> 12],
      [lex |-> << P("{"), S("rows"), P(":"), P("[") >> \o Row(1) \o Row(2)
                  \o << P("]"), P("}") >>,
       kind |-> "garbled", pre |-> 1, k |-> 2, open |-> 4, close |-> 15] }

Bodies ==
    WellFormedBodies
    \cup UNION { { Truncated(b, n) : n \in 0 .. Len(b.lex) - 1 } : b \in WellFormedBodies }
    \cup UNION { { Garbled(b, i) : i \in 1 .. Len(b.lex) } : b \in WellFormedBodies }
    \cup OtherBodies

\* Position in the body of the first lexeme of the i-th element of the
\* top-level rows array, and of its last lexeme.
RowStart(b, i) == b.open + (i - 1) * (Len(Row(1)) + 1) + 1
RowEnd(b, i) == RowStart(b, i) + Len(Row(1)) - 1

\* ------------------------------------------------- encoding/json Decoder

\* json.NewDecoder(res.Body)
NewDecoder == [pos |-> 0, tokenState |-> "TopValue", tokenStack |-> << >>, err |-> "none"]

\* How many lexemes the decoder can get at: the whole body while res.Body
\* is open, what its buffer already holds once res.Body is closed.
Limit == IF bodyOpen THEN Len(resBody.lex) ELSE avail

\* The error of a read past Limit: io.EOF / io.ErrUnexpectedEOF at the
\* end of an open body, the read error of a closed body.
ReadErr == IF bodyOpen THEN "EOF" ELSE "closed"

\* Decoder.tokenValueAllowed
tokenValueAllowed(d) ==
    d.tokenState \in {"TopValue", "ArrayStart", "ArrayValue", "ObjectValue"}

\* Decoder.tokenValueEnd
tokenValueEnd(d) ==
    [d EXCEPT !.tokenState =
        CASE @ \in {"ArrayStart", "ArrayValue"} -> "ArrayComma"
          [] @ = "ObjectValue" -> "ObjectComma"
          [] OTHER -> @]

RECURSIVE ScanValue(_, _, _)
\* Decoder.readValue: the scanner run over one JSON value starting at
\* lexeme i. The result is the position of the value's last lexeme, 0 when
\* the input runs out first, -1 at a syntax error. expect = "end" says
\* that a value ended at lexeme i - 1.
ScanValue(i, stack, expect) ==
    IF expect = "end"
    THEN IF stack = << >> THEN i - 1
         ELSE ScanValue(i, stack,
                        IF stack[Len(stack)] = "obj" THEN "objComma" ELSE "arrComma")
    ELSE IF i > Limit THEN 0
    ELSE LET x == resBody.lex[i]
             begin == CASE x.t \in {"s", "l"} -> ScanValue(i + 1, stack, "end")
                        [] x = P("{") -> ScanValue(i + 1, Append(stack, "obj"), "objFirst")
                        [] x = P("[") -> ScanValue(i + 1, Append(stack, "arr"), "arrFirst")
                        [] OTHER -> -1
             pop == ScanValue(i + 1, SubSeq(stack, 1, Len(stack) - 1), "end")
             key == IF x.t = "s" THEN ScanValue(i + 1, stack, "colon") ELSE -1
         IN  CASE expect = "value" -> begin
               [] expect = "objFirst" -> IF x = P("}") THEN pop ELSE key
               [] expect = "key" -> key
               [] expect = "colon" ->
                    IF x = P(":") THEN ScanValue(i + 1, stack, "value") ELSE -1
               [] expect = "objComma" ->
                    IF x = P(",") THEN ScanValue(i + 1, stack, "key")
                    ELSE IF x = P("}") THEN pop ELSE -1
               [] expect = "arrFirst" -> IF x = P("]") THEN pop ELSE begin
               [] expect = "arrComma" ->
                    IF x = P(",") THEN ScanValue(i + 1, stack, "value")
                    ELSE IF x = P("]") THEN pop ELSE -1
               [] OTHER -> -1

\* Decoder.Decode(dst): the sticky error, tokenPrepareForDecode, readValue,
\* unmarshal, tokenValueEnd. isRow says dst is the caller's row target (a
\* map or struct pointer), which only a JSON object fits. start is the
\* position of the decoded value.
DecodeOn(d, isRow) ==
    IF d.err # "none" THEN [d |-> d, err |-> d.err, start |-> 0]
    ELSE
    LET needSep == d.tokenState \in {"ArrayComma", "ObjectColon"}
        sep == IF d.tokenState = "ArrayComma" THEN P(",") ELSE P(":")
        d1 == IF needSep
              THEN [d EXCEPT !.pos = @ + 1,
                             !.tokenState = IF @ = "ArrayComma" THEN "ArrayValue"
                                            ELSE "ObjectValue"]
              ELSE d
        e == ScanValue(d1.pos + 1, << >>, "value")
        readErr == IF e = 0 THEN ReadErr ELSE "syntax"
    IN  IF needSep /\ d.pos >= Limit THEN [d |-> d, err |-> ReadErr, start |-> 0]
        ELSE IF needSep /\ resBody.lex[d.pos + 1] # sep
        THEN [d |-> d, err |-> "syntax", start |-> 0]
        ELSE IF ~tokenValueAllowed(d1) THEN [d |-> d1, err |-> "syntax", start |-> 0]
        ELSE IF e <= 0
        THEN [d |-> [d1 EXCEPT !.err = readErr], err |-> readErr, start |-> 0]
        ELSE [d |-> tokenValueEnd([d1 EXCEPT !.pos = e]),
              err |-> IF isRow /\ resBody.lex[d1.pos + 1] # P("{") THEN "type" ELSE "none",
              start |-> d1.pos + 1]

\* The value of the one element of a singleton set: used to evaluate an
\* argument once, before the operator that takes it is applied.
The(set) == CHOOSE x \in set : TRUE

Decode(d0, isRow) == The({ DecodeOn(d, isRow) : d \in {d0} })

RECURSIVE Token(_)
\* Decoder.Token on the decoder state d.
TokenOn(d) ==
    IF d.pos >= Limit THEN [d |-> d, err |-> ReadErr, tok |-> NoTok]
    ELSE
    LET c == resBody.lex[d.pos + 1]
        adv == [d EXCEPT !.pos = @ + 1]
        tokenError == [d |-> d, err |-> "syntax", tok |-> NoTok]
        push(st) == [adv EXCEPT !.tokenStack = Append(@, d.tokenState), !.tokenState = st]
        popped == tokenValueEnd([adv EXCEPT !.tokenState = d.tokenStack[Len(d.tokenStack)],
                                            !.tokenStack = SubSeq(@, 1, Len(@) - 1)])
        value == DecodeOn(d, FALSE)
    IN  CASE c = P("[") ->
               IF ~tokenValueAllowed(d) THEN tokenError
               ELSE [d |-> push("ArrayStart"), err |-> "none", tok |-> c]
          [] c = P("]") ->
               IF d.tokenState \notin {"ArrayStart", "ArrayComma"} THEN tokenError
               ELSE [d |-> popped, err |-> "none", tok |-> c]
          [] c = P("{") ->
               IF ~tokenValueAllowed(d) THEN tokenError
               ELSE [d |-> push("ObjectStart"), err |-> "none", tok |-> c]
          [] c = P("}") ->
               IF d.tokenState \notin {"ObjectStart", "ObjectComma"} THEN tokenError
               ELSE [d |-> popped, err |-> "none", tok |-> c]
          [] c = P(":") ->
               IF d.tokenState # "ObjectColon" THEN tokenError
               ELSE Token([adv EXCEPT !.tokenState = "ObjectValue"])
          [] c = P(",") ->
               IF d.tokenState = "ArrayComma"
               THEN Token([adv EXCEPT !.tokenState = "ArrayValue"])
               ELSE IF d.tokenState = "ObjectComma"
               THEN Token([adv EXCEPT !.tokenState = "ObjectKey"])
               ELSE tokenError
          [] c.t = "s" /\ d.tokenState \in {"ObjectStart", "ObjectKey"} ->
               IF d.err # "none" THEN [d |-> d, err |-> d.err, tok |-> NoTok]
               ELSE [d |-> [adv EXCEPT !.tokenState = "ObjectColon"], err |-> "none", tok |-> c]
          [] OTHER ->
               IF ~tokenValueAllowed(d) THEN tokenError
               ELSE [d |-> value.d, err |-> value.err,
                     tok |-> IF value.err = "none" THEN c ELSE NoTok]

\* Decoder.Token
Token(d0) == The({ TokenOn(d) : d \in {d0} })

\* Decoder.More
More(d) == d.pos < Limit /\ resBody.lex[d.pos + 1] \notin {P("]"), P("}")}

\* ------------------------------------------------------------ RowScanner

\* A Close that forgets to clear s.closer.
ScannerClose_KeepsCloser(x) == x

\* RowScanner.Close on the scanner fields x (stream.go lines 73-80); the
\* underlying body is closed when x.closer was set.
ScannerClose(x) == [x EXCEPT !.closer = FALSE]

\* stream.go lines 37-49: r2 is the token read right after the string
\* "rows"; it must be the array-open delimiter.
AfterRowsKey(r2) ==
    IF r2.err # "none" THEN [d |-> r2.d, err |-> r2.err]
    ELSE IF r2.tok # P("[") THEN [d |-> r2.d, err |-> "unexpected"]
    ELSE [d |-> r2.d, err |-> "none"]

RECURSIVE Seek(_)
\* One round of the seek loop, r being the token just read (stream.go lines 30-50).
SeekOn(r) ==
    IF r.err # "none" THEN [d |-> r.d, err |-> r.err]
    ELSE IF r.tok = S("rows") THEN The({ AfterRowsKey(r2) : r2 \in {Token(r.d)} })
    ELSE Seek(r.d)

\* The seek loop of Next (stream.go lines 29-51): read tokens up to a
\* string "rows" and require an array-open delimiter right after it.
Seek(d) == The({ SeekOn(r) : r \in {Token(d)} })

\* RowScanner.Next(dst) on the current scanner and decoder (stream.go lines
\* 23-67): the new scanner fields before its Close call, the new decoder,
\* the result, whether Close is called, and the position of the row
\* decoded into dst.
\* stream.go lines 55-60: row is the result of dec.Decode(dst).
AfterDecode(row) ==
    IF row.err # "none"
    THEN [x |-> [sc EXCEPT !.inRows = TRUE, !.lastErr = row.err], d |-> row.d,
          ret |-> FALSE, closes |-> TRUE, start |-> 0]
    ELSE [x |-> [sc EXCEPT !.inRows = TRUE], d |-> row.d,
          ret |-> TRUE, closes |-> FALSE, start |-> row.start]

\* stream.go lines 28-66: sk is the result of the seek (or the decoder as
\* it is when the scanner is already inside the array).
AfterSeek(sk) ==
    IF sk.err # "none"
    THEN [x |-> [sc EXCEPT !.lastErr = sk.err], d |-> sk.d,
          ret |-> FALSE, closes |-> TRUE, start |-> 0]
    ELSE IF More(sk.d)
    THEN The({ AfterDecode(row) : row \in {Decode(sk.d, TRUE)} })
    ELSE [x |-> [sc EXCEPT !.inRows = TRUE, !.done = TRUE], d |-> Token(sk.d).d,
          ret |-> FALSE, closes |-> TRUE, start |-> 0]

NextResult ==
    IF sc.done
    THEN [x |-> sc, d |-> dec, ret |-> FALSE, closes |-> FALSE, start |-> 0]
    ELSE The({ AfterSeek(sk) :
                 sk \in {IF sc.inRows THEN [d |-> dec, err |-> "none"] ELSE Seek(dec)} })

\* The effect on res.Body of a call that invokes closer.Close() (when
\* closing) on a decoder left at position p: the body is closed and the
\* decoder keeps what it had buffered, at least what it consumed.
BodyAfter(closing, p) ==
    /\ bodyOpen' = (bodyOpen /\ ~closing)
    /\ closeCount' = closeCount + (IF closing THEN 1 ELSE 0)
    /\ IF closing /\ bodyOpen
       THEN avail' \in p .. Len(resBody.lex)
       ELSE avail' = avail

\* A 2xx response has been handed to ExecSQLStream by doRequest.
ExecReturned2xx ==
    /\ cfg = [MaxRetries |-> 0, InitialBackoff |-> 0, MaxBackoff |-> 0,
              Logger |-> FALSE, nHooks |-> 0,
              APIKey |-> "", HolderID |-> "", ProjectName |-> "",
              UserAgent |-> DefaultUserAgent]
    /\ call = [fn |-> "doRequest", out |-> FALSE]
    /\ pc = "done"
    /\ attempt = 0
    /\ backoff = normalizeBackoff(0, 0)[1]
    /\ maxBack = normalizeBackoff(0, 0)[2]
    /\ retries = 0
    /\ lastErr = NoErr
    /\ ret = RetNil
    /\ sent = 1
    /\ events = << >>
    /\ lastWait = NoWait
    /\ nWaits = 0
    /\ ctxDone = FALSE
    /\ hist = InitHist
    /\ opts = << >>
    /\ hdr = CallHeaders(cfg, << >>)
    /\ reqs = << RequestHeader(cfg, hdr) >>
    /\ bodies = << Unread(200) >>

InitObs == [yielded |-> << >>, lastNext |-> "none", sawFalse |-> FALSE,
            trueAfterFalse |-> FALSE, lastClose |-> "none", calls |-> 0, lastOp |-> "none"]

InitScan ==
    /\ ExecReturned2xx
    /\ PagerIdle
    /\ LogIdle
    /\ MigIdle
    /\ PolIdle
    /\ RestIdle
    /\ resBody \in Bodies
    /\ bodyOpen = TRUE
    /\ closeCount = 0
    /\ avail = 0
    /\ dec = NewDecoder
    /\ sc = [closer |-> FALSE, inRows |-> FALSE, done |-> FALSE, lastErr |-> "none"]
    /\ stream = "pending"
    /\ obs = InitObs

\* ExecSQLStream after doRequest returned the response (stream.go lines 92-102).
ExecSQLStream ==
    /\ stream = "pending"
    /\ \E r \in {Token(NewDecoder)} :
       LET bad == r.err # "none" \/ r.tok # P("{")
       IN  /\ dec' = r.d
           /\ stream' = IF bad THEN "err" ELSE "scanner"
           /\ sc' = [closer |-> ~bad, inRows |-> FALSE, done |-> FALSE, lastErr |-> "none"]
           /\ BodyAfter(bad, r.d.pos)
    /\ obs' = [obs EXCEPT !.lastOp = "ExecSQLStream"]
    /\ UNCHANGED resBody
    /\ UNCHANGED execVars
    /\ UNCHANGED notScanVars

\* The caller calls Next on the scanner.
RowScanner_Next ==
    /\ stream = "scanner"
    /\ obs.calls < MaxCalls
    /\ \E r \in {NextResult} :
           /\ dec' = r.d
           /\ sc' = IF r.closes THEN ScannerClose(r.x) ELSE r.x
           /\ BodyAfter(r.closes /\ r.x.closer, r.d.pos)
           /\ obs' = [obs EXCEPT
                        !.yielded = IF r.ret THEN Append(@, r.start) ELSE @,
                        !.lastNext = IF r.ret THEN "true" ELSE "false",
                        !.sawFalse = @ \/ ~r.ret,
                        !.trueAfterFalse = @ \/ (obs.sawFalse /\ r.ret),
                        !.calls = @ + 1,
                        !.lastOp = "Next"]
    /\ UNCHANGED <<resBody, stream>>
    /\ UNCHANGED execVars
    /\ UNCHANGED notScanVars

\* The caller calls Close on the scanner.
RowScanner_Close ==
    /\ stream = "scanner"
    /\ obs.calls < MaxCalls
    /\ sc' = ScannerClose(sc)
    /\ BodyAfter(sc.closer, dec.pos)
    /\ obs' = [obs EXCEPT !.lastClose = IF sc.closer THEN "closed" ELSE "noop",
                          !.calls = @ + 1,
                          !.lastOp = "Close"]
    /\ UNCHANGED <<resBody, dec, stream>>
    /\ UNCHANGED execVars
    /\ UNCHANGED notScanVars

NextScan ==
    \/ ExecSQLStream
    \/ RowScanner_Next
    \/ RowScanner_Close

SpecScanner == InitScan /\ [][NextScan]_vars

\* The streaming path as a whole: ExecSQLStream calls doRequest and reads
\* the first token of the response it gets, and the caller drives the
\* RowScanner. A run starts at the call of doRequest, or right after
\* doRequest returned a response with any of the modelled body contents.
InitStream ==
    \/ Init
    \/ InitScan

NextStream ==
    \/ StartDoRequest
    \/ DoRequest_Begin
    \/ DoRequest_Send
    \/ DoRequest_Sleep
    \/ Cancel
    \/ ExecSQLStream
    \/ RowScanner_Next
    \/ RowScanner_Close

SpecStream == InitStream /\ [][NextStream]_vars

\* ----------------------------------------------------------------- Pager

\* The Pagers a caller constructs: a limit, a starting offset, not done.
PagerLimits == 1 .. MaxLimit
PagerStarts == {0, 5}

\* What Project.Browse can give back for a page of at most limit rows: an
\* error (-1) or a response with 0 .. limit rows.
BrowseResults(limit) == (-1) .. limit

\* No executor call is running while the Pager is driven; each Browse is
\* one whole doJSON call.
ExecIdle ==
    /\ InitExec
    /\ cfg = [MaxRetries |-> 0, InitialBackoff |-> 0, MaxBackoff |-> 0,
              Logger |-> FALSE, nHooks |-> 0,
              APIKey |-> "", HolderID |-> "", ProjectName |-> "",
              UserAgent |-> DefaultUserAgent]

InitPager ==
    /\ ExecIdle
    /\ ScanIdle
    /\ LogIdle
    /\ MigIdle
    /\ PolIdle
    /\ RestIdle
    /\ pg \in [Limit : PagerLimits, Offset : PagerStarts, Done : {FALSE}]
    /\ pgStart = pg.Offset
    /\ fetches = << >>
    /\ pgLast = [called |-> FALSE, before |-> pg, fetched |-> FALSE, ret |-> "none", rows |-> 0]
    /\ pgDoneBy = "none"

\* A Next that fetches although the Pager is done.
PagerReturnsEarly_Never(p) == FALSE

\* if p.Done { return nil, nil } (pager.go lines 17-19)
PagerReturnsEarly(p) == p.Done

\* An error path that also marks the Pager done.
PagerAfterError_MarksDone(p) == [p EXCEPT !.Done = TRUE]

\* The Pager after Browse failed: return nil, err (pager.go lines 21-23).
PagerAfterError(p) == p

\* An offset that advances by the limit, not by the rows received.
PagerAfterRows_ByLimit(p, n) == [p EXCEPT !.Offset = @ + p.Limit]

\* The Pager after a page of n > 0 rows: p.Offset += len(resp.Rows) (pager.go line 28).
PagerAfterRows(p, n) == [p EXCEPT !.Offset = @ + n]

\* Pager.Next on a Pager that is done: return nil, nil (pager.go lines 17-19).
PagerNextDone ==
    /\ pgLast' = [called |-> TRUE, before |-> pg, fetched |-> FALSE,
                   ret |-> "nil", rows |-> 0]
    /\ UNCHANGED <<pg, fetches, pgDoneBy>>

\* Pager.Next after Browse gave n rows, or failed (n < 0) (pager.go lines 20-29).
PagerNextFetched(n) ==
    /\ fetches' = Append(fetches, [offset |-> pg.Offset, rows |-> n])
    /\ pg' = CASE n < 0 -> PagerAfterError(pg)
                [] n = 0 -> [pg EXCEPT !.Done = TRUE]
                [] OTHER -> PagerAfterRows(pg, n)
    /\ pgLast' = [called |-> TRUE, before |-> pg, fetched |-> TRUE,
                   ret |-> CASE n < 0 -> "err" [] n = 0 -> "nil" [] OTHER -> "rows",
                   rows |-> IF n > 0 THEN n ELSE 0]
    /\ pgDoneBy' = IF pg'.Done /\ ~pg.Done THEN "fetch" ELSE pgDoneBy

\* Pager.Next (pager.go lines 16-30), the Browse call and its result included.
Pager_Next ==
    /\ PagerReturnsEarly(pg) \/ Len(fetches) < MaxPagerCalls
    /\ IF PagerReturnsEarly(pg)
       THEN PagerNextDone
       ELSE \E n \in BrowseResults(pg.Limit) : PagerNextFetched(n)
    /\ UNCHANGED pgStart
    /\ UNCHANGED notPagerVars

\* The caller stops the iteration by setting the exported field Done (pager.go line 12).
Pager_CallerSetsDone ==
    /\ ~pg.Done
    /\ pg' = [pg EXCEPT !.Done = TRUE]
    /\ pgDoneBy' = "caller"
    /\ UNCHANGED <<pgStart, fetches, pgLast>>
    /\ UNCHANGED notPagerVars

NextPager ==
    \/ Pager_Next
    \/ Pager_CallerSetsDone

SpecPager == InitPager /\ [][NextPager]_vars

\* -------------------------------------------------------- header redaction

\* The string literals of redactHeaders as bytes: the text put between
\* the first and the last four bytes (part_011 line 458) and the fixed mask
\* (line 460).
MaskInfix == << "c3", "a2", "e2", "82", "ac", "c2", "a6" >>
FixedMask == << "*", "*", "*", "*", "*", "*", "*", "*" >>

\* A redaction that passes every value through.
RedactValue_Identity(v) == v

\* The masking of one x-api-key value v (part_011 lines 457-461):
\* v[:4] + infix + v[len(v)-4:] when len(v) > 8, the fixed mask otherwise.
RedactValue(v) ==
    IF Len(v) > 8
    THEN SubSeq(v, 1, 4) \o MaskInfix \o SubSeq(v, Len(v) - 3, Len(v))
    ELSE FixedMask

\* strings.EqualFold(k, "x-api-key")
IsAPIKeyHeader(k) == k \in {"x-api-key", "X-Api-Key", "X-API-KEY"}

\* redactHeaders(h) (part_011 lines 449-468): a copy of h with every
\* x-api-key value masked.
redactHeaders(h) ==
    [k \in DOMAIN h |->
        IF IsAPIKeyHeader(k) THEN [i \in 1 .. Len(h[k]) |-> RedactValue(h[k][i])]
        ELSE h[k]]

\* The API keys explored: every key of 1 .. MaxKeyLen bytes over the
\* alphabet {k, *}, and keys of 15 and 16 bytes with the infix text or
\* other bytes in the middle.
KeyAlphabet == {"k", "*"}
ShortKeys == UNION { [1 .. n -> KeyAlphabet] : n \in 1 .. MaxKeyLen }
LongKeys ==
    { << "a", "b", "c", "d" >> \o mid \o << "w", "x", "y", "z" >> :
        mid \in { MaskInfix,
                  << "k", "k", "k", "k", "k", "k", "k" >>,
                  << "c3", "a2", "e2", "82", "ac", "c2", "k" >>,
                  MaskInfix \o << "k" >> } }
APIKeys == ShortKeys \cup LongKeys

InitLog ==
    /\ ExecIdle
    /\ ScanIdle
    /\ PagerIdle
    /\ MigIdle
    /\ PolIdle
    /\ RestIdle
    /\ apiKey \in APIKeys
    /\ outgoing = EmptyHeader
    /\ logged = EmptyHeader

\* A redactHeaders that masks the values in the map it is given.
RedactedArgument_InPlace(h) == redactHeaders(h)

\* The map passed to redactHeaders after the call: the function ranges
\* over h and adds to cp, a map of its own (part_011 lines 453-466).
RedactedArgument(h) == h

\* Client.HolderID as bytes.
HolderBytes == << "h", "o", "l", "d", "e", "r", "-", "i", "d", "-", "1" >>

\* The loop body of an attempt up to the Logger call (part_000 lines
\* 42-55): the request is built from the client's x-api-key and
\* x-holder-id headers and the Logger receives redactHeaders(req.Header).
Logger_Request ==
    /\ outgoing = EmptyHeader
    /\ \E built \in { RequestHeader([UserAgent |-> DefaultUserAgent],
                           HeaderSet(HeaderSet(EmptyHeader, "x-api-key", apiKey),
                                     "x-holder-id", HolderBytes)) } :
         /\ logged' = redactHeaders(built)
         /\ outgoing' = RedactedArgument(built)
    /\ UNCHANGED apiKey
    /\ UNCHANGED notLogVars

NextLog == Logger_Request

SpecLog == InitLog /\ [][NextLog]_vars

\* ================================================================ claims

\* N of the claims: max(MaxRetries, 0).
NormalizedN == IF cfg.MaxRetries < 0 THEN 0 ELSE cfg.MaxRetries

DecodeFailed ==
    /\ call.fn = "doJSON" /\ call.out
    /\ hist.last.t = "res" /\ hist.last.status \div 100 = 2 /\ hist.last.body = "bad"

\* C2: a 2xx response whose body cannot be decoded ends the buffered call:
\* the call returns the decode error after that attempt and no further
\* request follows, whatever retry budget remains.
C2_DecodeErrorTerminal ==
    DecodeFailed => (pc = "done" /\ ret.err.k = "decode" /\ sent = hist.sentAt2xx)

\* C3: after a retryable response whose Retry-After exceeds the backoff the
\* policy had computed, an uninterrupted wait lasts at least that
\* Retry-After duration.
C3_RetryAfterHonoured ==
    (lastWait.valid /\ ~lastWait.interrupted /\ lastWait.ra > lastWait.policy)
        => lastWait.waited >= lastWait.ra

\* C4: once the context is cancelled while the call is suspended (network
\* send or backoff sleep) no further attempt is started and no observer
\* fires for a later attempt.
C4_UnwindsOnCancel ==
    ctxDone =>
        /\ pc = "send" => attempt <= hist.attemptAtCancel
        /\ sent <= hist.attemptAtCancel + 1
        /\ \A i \in 1 .. Len(events) : events[i].attempt <= hist.attemptAtCancel

\* The latest attempt got a non-2xx response whose status is not retryable.
NonRetryableResponse ==
    /\ hist.last.t = "res"
    /\ hist.last.status \div 100 # 2
    /\ hist.last.status # 429
    /\ hist.last.status \notin 500 .. 599

\* C5: a non-2xx response with a status other than 429 and 5xx ends the call
\* at that attempt: no request follows it, no backoff wait follows it, and
\* the returned error is the unwrapped *APIError with that status and body.
C5_NonRetryableShortCircuit ==
    NonRetryableResponse =>
        /\ pc = "done"
        /\ ret.k = "err" /\ ret.err.k = "api" /\ ~ret.err.wrapped
        /\ ret.err.status = hist.last.status
        /\ ret.err.body = hist.last.body
        /\ sent = ret.err.at + 1
        /\ nWaits = ret.err.at
        /\ ~lastWait.valid

\* C5 witness: a 400 on the first attempt of a call configured with two
\* retries; the call is over after one request.
C5_Witness ==
    /\ pc = "done" /\ cfg.MaxRetries = 2 /\ hist.last.status = 400
    /\ sent = 1 /\ ret.k = "err" /\ ret.err.status = 400

\* The first 2xx response is one the executor accepts: the streaming
\* executor accepts every 2xx, the buffered one a 2xx with no decode
\* target, an empty body or a body that decodes.
Accepted2xx ==
    call.fn = "doRequest" \/ ~call.out \/ hist.first2xx.body # "bad"

\* The call ended successfully with the request that got the first 2xx.
SuccessAtFirst2xx ==
    /\ pc = "done"
    /\ ret = RetNil
    /\ sent = hist.sentAt2xx

\* C6 as stated: once an attempt has received a 2xx response (every earlier
\* attempt having failed retryably) the call returns success with exactly
\* that many requests, and no earlier failure is surfaced.
C6_SuccessAtFirst2xx_Original == hist.got2xx => SuccessAtFirst2xx

\* C6 amended: the same, for a first 2xx response that the executor accepts
\* (any 2xx in the streaming executor; no decode target, an empty body or a
\* decodable body in the buffered executor).
C6_SuccessAtAccepted2xx == (hist.got2xx /\ Accepted2xx) => SuccessAtFirst2xx

\* C6 witness: a buffered call with a decode target that succeeded on its
\* third request.
C6_Witness ==
    /\ pc = "done" /\ call.fn = "doJSON" /\ call.out
    /\ ret = RetNil /\ sent = 3 /\ hist.first2xx.body = "good"

\* The positions of the first lexemes of the first n elements of the
\* top-level rows array, in array order.
FirstRows(n) == [i \in 1 .. n |-> RowStart(resBody, i)]

\* The number of elements of the rows array that the body holds entirely.
CompleteRows ==
    Cardinality({ i \in 1 .. resBody.k : RowEnd(resBody, i) <= Len(resBody.lex) })

\* The caller has a scanner and has only called Next on it so far.
OnlyNextCalled == stream = "scanner" /\ obs.lastClose = "none"

\* The body was cut off inside the rows array: after the array's opening
\* bracket and before its closing one. Only bodies whose first string
\* "rows" is the top-level field name are taken.
CutInsideRows ==
    /\ resBody.kind = "trunc"
    /\ resBody.pre \in {1, 2}
    /\ resBody.open <= Len(resBody.lex)
    /\ Len(resBody.lex) < resBody.close

\* C7: on a body that is cut off inside the rows array, Next yields the
\* complete rows in array order and then returns false with Err() non-nil;
\* the early end is never reported as a clean end.
C7_TruncationIsAnError ==
    (OnlyNextCalled /\ CutInsideRows) =>
        /\ Len(obs.yielded) <= CompleteRows
        /\ obs.yielded = FirstRows(Len(obs.yielded))
        /\ obs.sawFalse =>
              /\ Len(obs.yielded) = CompleteRows
              /\ sc.lastErr # "none"

\* C8: on a well-formed response object whose rows field is an array of n
\* elements, Next returns true exactly n times, yielding the elements in
\* array order, and then returns false with Err() = nil.
C8_WellFormedYieldsAll ==
    (OnlyNextCalled /\ resBody.kind = "wf") =>
        /\ Len(obs.yielded) <= resBody.k
        /\ obs.yielded = FirstRows(Len(obs.yielded))
        /\ obs.sawFalse =>
              /\ Len(obs.yielded) = resBody.k
              /\ sc.lastErr = "none"

\* C9: once Next has returned false, no later call to Next returns true.
C9_TerminationAbsorbing == ~obs.trueAfterFalse

\* C10: the response body is closed at most once; a Next that returned
\* false leaves it closed; Close closes it exactly when it is still open
\* (the scanner holds the closer exactly as long as the body is open), and
\* after any Close the body is closed.
C10_ClosedAtMostOnce ==
    /\ closeCount <= 1
    /\ closeCount = (IF bodyOpen THEN 0 ELSE 1)
    /\ (obs.lastOp = "Next" /\ obs.lastNext = "false") => ~bodyOpen
    /\ stream = "scanner" => (sc.closer <=> bodyOpen)
    /\ obs.lastOp = "Close" => ~bodyOpen

\* C10 witness: Next returned false and closed the body, and the Close the
\* caller issued afterwards found nothing to close.
C10_Witness ==
    /\ obs.sawFalse /\ obs.lastOp = "Close" /\ obs.lastClose = "noop"
    /\ closeCount = 1 /\ ~bodyOpen

\* What a header must hold for a client field or option value v: the value
\* alone when v is non-empty, nothing otherwise.
OnlyValue(v) == IF v # "" THEN << v >> ELSE << >>

\* The idempotency key the call was given with WithIdempotencyKey ("" if none).
GivenIdempotencyKey ==
    IF \E i \in 1 .. Len(opts) : opts[i].opt = "idempotency" THEN "idem-1" ELSE ""

RECURSIVE RowsBefore(_)
\* The number of rows returned by the first i Browse calls (a failed call
\* returned none).
RowsBefore(i) ==
    IF i = 0 THEN 0
    ELSE RowsBefore(i - 1) + (IF fetches[i].rows > 0 THEN fetches[i].rows ELSE 0)

\* C12: the offset passed to each Browse call is the starting offset plus
\* the number of rows returned by all earlier successful calls; offsets
\* never decrease from one call to the next and grow strictly after every
\* page that held rows. (Calls are made one at a time: each is made inside
\* one Next and has returned before Next returns.)
C12_OffsetsFollowRows ==
    /\ \A i \in 1 .. Len(fetches) : fetches[i].offset = pgStart + RowsBefore(i - 1)
    /\ \A i \in 1 .. Len(fetches) - 1 :
         /\ fetches[i].offset <= fetches[i + 1].offset
         /\ fetches[i].rows > 0 => fetches[i].offset < fetches[i + 1].offset
    /\ pg.Offset = pgStart + RowsBefore(Len(fetches))

\* C12 witness: pages of 2, 2 and 0 rows fetched at offsets 0, 2 and 4.
C12_Witness ==
    /\ Len(fetches) = 3
    /\ fetches[1] = [offset |-> 0, rows |-> 2]
    /\ fetches[2] = [offset |-> 2, rows |-> 2]
    /\ fetches[3] = [offset |-> 4, rows |-> 0]
    /\ pg.Done

\* C13: a Next on an exhausted Pager returns (nil, nil) and makes no Browse
\* call; Done is set only by a Browse that returned zero rows or by the
\* caller, and the Pager never resets it (no Browse call follows one that
\* returned zero rows).
C13_ExhaustedIsAbsorbing ==
    /\ (pgLast.called /\ pgLast.before.Done) =>
          /\ pgLast.ret = "nil"
          /\ ~pgLast.fetched
          /\ pg.Done
    /\ pg.Done =>
          \/ pgDoneBy = "caller"
          \/ /\ pgDoneBy = "fetch"
             /\ fetches # << >>
             /\ fetches[Len(fetches)].rows = 0
    /\ pgDoneBy # "none" => pg.Done
    /\ \A i \in 1 .. Len(fetches) - 1 : fetches[i].rows # 0

\* C13 witness: the Pager was exhausted by an empty page and Next was
\* called again.
C13_Witness ==
    /\ pgDoneBy = "fetch"
    /\ pgLast.called /\ pgLast.before.Done /\ pgLast.ret = "nil"
    /\ Len(fetches) = 2

\* C14: when Browse fails, Next returns the error and leaves Offset and
\* Done as they were; the Browse call that follows a failed one asks for
\* the same offset.
C14_ErrorLeavesCursor ==
    /\ (pgLast.called /\ pgLast.fetched /\ fetches[Len(fetches)].rows < 0) =>
          /\ pgLast.ret = "err"
          /\ pg.Offset = pgLast.before.Offset
          /\ pgDoneBy # "caller" => pg.Done = pgLast.before.Done
    /\ \A i \in 1 .. Len(fetches) - 1 :
          fetches[i].rows < 0 => fetches[i + 1].offset = fetches[i].offset
    /\ pgLast.ret = "err" => (pgLast.fetched /\ fetches[Len(fetches)].rows < 0)

\* C14 witness: a page of rows, a failed Browse, and the same offset
\* fetched again with success.
C14_Witness ==
    /\ Len(fetches) = 3
    /\ fetches[1].rows = 2
    /\ fetches[2] = [offset |-> pgStart + 2, rows |-> -1]
    /\ fetches[3] = [offset |-> pgStart + 2, rows |-> 1]

\* C15: the x-api-key value the request Logger receives is never the real
\* API key.
C15_LoggedKeyIsNotTheKey ==
    logged # EmptyHeader =>
        \A i \in 1 .. Len(HeaderValues(logged, "x-api-key")) :
            HeaderValues(logged, "x-api-key")[i] # apiKey

\* errors.Is(err, ctx.Err()) on the value r a call returned: the returned
\* error, or the error it wraps, is a transport error that wraps the
\* context's error.
IdentifiesCancellation(r) ==
    /\ r.k \in {"err", "exhausted"}
    /\ r.err.k = "transport"
    /\ r.err.cause = "ctx"

\* C16: a call that ended after its context was cancelled (or its deadline
\* expired) while it was running returns an error from which the context's
\* error can be recovered.
C16_CancellationIdentified ==
    (pc = "done" /\ ctxDone) => IdentifiesCancellation(ret)

\* The statuses the claims name retryable.
RetryableStatus(code) == code = 429 \/ code \in 500 .. 599

\* A further attempt has been started after the response hist.last.
RetriedAfterResponse == pc = "send" /\ attempt > 0 /\ hist.last.t = "res"

\* C17: a response is followed by another attempt only if its status is
\* 429 or in 500..599, and a response with such a status is followed by
\* another attempt whenever the retry budget allows one (the call ends on
\* it only with the budget used up), in both executors.
C17_RetriedIffRetryableStatus ==
    /\ RetriedAfterResponse => RetryableStatus(hist.last.status)
    /\ (pc = "done" /\ hist.last.t = "res" /\ RetryableStatus(hist.last.status)) =>
          /\ ret.k = "exhausted"
          /\ sent = NormalizedN + 1

\* C18: a Retry-After never shortens the wait: the backoff used for a wait
\* is never below the backoff the policy had computed, and when the parsed
\* Retry-After is absent, zero or not larger than that backoff the backoff
\* is unchanged and the wait is drawn from the policy's jitter window (half
\* the backoff up to the backoff, capped at the maximum).
C18_RetryAfterNeverShortens ==
    lastWait.valid =>
        /\ lastWait.backoff >= lastWait.policy
        /\ lastWait.ra <= lastWait.policy =>
              /\ lastWait.backoff = lastWait.policy
              /\ lastWait.jitter >= Min(lastWait.policy \div 2, maxBack)
              /\ lastWait.jitter <= Min(lastWait.policy, maxBack)
              /\ ~lastWait.interrupted => lastWait.waited = lastWait.jitter

\* C18 witness: a response with a Retry-After of 50 ms while the policy's
\* backoff is 200 ms, followed by a full wait of at least 100 ms.
C18_Witness ==
    /\ lastWait.valid /\ ~lastWait.interrupted
    /\ lastWait.ra = 50 /\ lastWait.policy = 200
    /\ lastWait.waited >= 100

\* What one attempt a must show to the observers on one side: the Logger
\* event of that side when a Logger is installed, then one call of every
\* hook of that side in registration order.
ExpectedSide(loggerEvent, hookEvent, a) ==
    (IF cfg.Logger THEN << [ev |-> loggerEvent, attempt |-> a, i |-> 0] >> ELSE << >>)
        \o [i \in 1 .. cfg.nHooks |-> [ev |-> hookEvent, attempt |-> a, i |-> i]]

RECURSIVE ExpectedEvents(_)
\* The observer calls of n complete attempts 0 .. n-1, in attempt order.
ExpectedEvents(n) ==
    IF n = 0 THEN << >>
    ELSE ExpectedEvents(n - 1)
            \o ExpectedSide("request", "before", n - 1)
            \o ExpectedSide("response", "after", n - 1)

\* C19: in the buffered executor the observer calls are, attempt after
\* attempt in attempt-index order, the request-side observers once (Logger
\* "request", then the BeforeHooks in registration order) before the send
\* and the response-side observers once (Logger "response", then the
\* AfterHooks in registration order) after it, whether the send gave a
\* response or a transport error.
C19_ObserversOncePerAttempt ==
    call.fn = "doJSON" =>
        events = ExpectedEvents(sent)
                    \o (IF pc = "send" THEN ExpectedSide("request", "before", attempt)
                        ELSE << >>)

\* C19 witness: a buffered call with a Logger and hooks made two attempts,
\* the second one ending in a transport error.
C19_Witness ==
    /\ call.fn = "doJSON" /\ cfg.Logger /\ cfg.nHooks > 0
    /\ pc = "done" /\ sent = 2 /\ hist.last.t = "err"
    /\ Len(events) = 4 * (1 + cfg.nHooks)

\* The response does not start with an object-open token.
BadResponseStart == resBody.lex = << >> \/ resBody.lex[1] # P("{")

\* The streaming path holds no open body that nobody owns; readAsked says
\* how far a body of a failed attempt must have been read.
NoBodyLeaked(readAsked) ==
    /\ call.fn = "doRequest" =>
          \A i \in 1 .. Len(bodies) :
              IF bodies[i].status \div 100 = 2
              THEN /\ bodies[i].read = "unread" /\ ~bodies[i].closed
                   /\ i = Len(bodies)
                   /\ pc = "done" /\ ret = RetNil
                   /\ stream \in {"pending", "scanner", "err"}
              ELSE bodies[i].read \in readAsked /\ bodies[i].closed
    /\ (call.fn = "doRequest" /\ pc = "done" /\ ret # RetNil) =>
          (stream = "none" /\ ~bodyOpen)
    /\ stream = "pending" => (bodyOpen /\ closeCount = 0 /\ dec = NewDecoder)
    /\ stream = "err" => (BadResponseStart /\ ~bodyOpen /\ closeCount = 1)
    /\ stream = "scanner" => ~BadResponseStart

MaxUpRuns == 2

Range(s) == { s[j] : j \in 1..Len(s) }

\* The directory entries explored, names in ASCII: the files 1.sql, 10.sql,
\* 2.SQL and 9.txt, and a directory named 3.sql.
DirEntries ==
    { [name |-> << 49, 46, 115, 113, 108 >>, isDir |-> FALSE],
      [name |-> << 49, 48, 46, 115, 113, 108 >>, isDir |-> FALSE],
      [name |-> << 50, 46, 83, 81, 76 >>, isDir |-> FALSE],
      [name |-> << 57, 46, 116, 120, 116 >>, isDir |-> FALSE],
      [name |-> << 51, 46, 115, 113, 108 >>, isDir |-> TRUE] }

\* strings.ToLower on ASCII bytes, and strings.HasSuffix.
ToLower(n) == [j \in 1..Len(n) |-> IF n[j] >= 65 /\ n[j] <= 90 THEN n[j] + 32 ELSE n[j]]
HasSuffix(n, suffix) ==
    /\ Len(n) >= Len(suffix)
    /\ SubSeq(n, Len(n) - Len(suffix) + 1, Len(n)) = suffix
DotSQL == << 46, 115, 113, 108 >>

\* The entries Up keeps (models.go lines 138-142).
IsMigration(e) == ~e.isDir /\ HasSuffix(ToLower(e.name), DotSQL)

\* The order of sort.Strings: bytewise lexicographic.
StringLess(a, b) ==
    LET n == IF Len(a) < Len(b) THEN Len(a) ELSE Len(b)
        d == { j \in 1..n : a[j] # b[j] }
    IN  IF d = {} THEN Len(a) < Len(b)
        ELSE LET f == CHOOSE j \in d : \A l \in d : j <= l IN a[f] < b[f]

RECURSIVE sortStrings(_)
sortStrings(strs) ==
    IF strs = {} THEN << >>
    ELSE LET least == CHOOSE x \in strs : \A y \in strs \ {x} : StringLess(x, y)
         IN  << least >> \o sortStrings(strs \ {least})

\* names after the listing loop and sort.Strings (models.go lines 137-143).
MigrationNames(entries) == sortStrings({ e.name : e \in { x \in entries : IsMigration(x) } })

\* What a Client.ExecSQL call meets: doJSON fails (transport error, non-2xx
\* status, retries exhausted: doErr), or it decodes a 2xx body with the
\* fields ok and error of SQLResponse.
SQLAnswers ==
    { [doErr |-> TRUE, ok |-> FALSE, error |-> ""] }
        \cup [doErr : {FALSE}, ok : BOOLEAN, error : {"", "syntax error"}]

\* Client.ExecSQL (08-migrations.md lines 410-422): the error it returns,
\* "nil" for none.
ExecSQL(a) ==
    IF a.doErr THEN "request failed"
    ELSE IF ~a.ok /\ a.error # "" THEN a.error
    ELSE "nil"

\* The service executes a statement exactly when it answers ok: true.
Executed(a) == ~a.doErr /\ a.ok

\* Query[migRow] over SELECT id FROM _migrations (part_014 lines 380-398):
\* the ids of res.Rows; an answer with ok: false carries no rows.
QueryIDs(a, table) == IF Executed(a) THEN table ELSE {}

CallRecord(stmt, a) ==
    [stmt |-> stmt, doErr |-> a.doErr, ok |-> a.ok, error |-> a.error,
     errNil |-> ExecSQL(a) = "nil"]

\* A statement failed and ExecSQL returned no error for it.
Unreported(a) == srv.unreported \/ (~Executed(a) /\ ExecSQL(a) = "nil")

UpReturns(appliedNow, e, k) ==
    up' = [up EXCEPT !.pc = "returned", !.applied = appliedNow, !.err = e, !.failedAt = k]

InitMigrator ==
    /\ ExecIdle
    /\ ScanIdle
    /\ PagerIdle
    /\ LogIdle
    /\ PolIdle
    /\ RestIdle
    /\ fsys \in SUBSET DirEntries
    /\ ledger = {}
    /\ up = UpIdle
    /\ srv = NothingRun
    /\ sqlCall = NoSQLCall
    /\ prevUp = NoPrevUp
    /\ upRuns = 0

\* The caller calls Up (again).
Up_Call ==
    /\ up.pc \in {"idle", "returned"}
    /\ upRuns < MaxUpRuns
    /\ upRuns' = upRuns + 1
    /\ prevUp' = IF up.pc = "returned"
                 THEN [valid |-> TRUE, applied |-> up.applied, err |-> up.err,
                       failedAt |-> up.failedAt, ledger |-> ledger]
                 ELSE NoPrevUp
    /\ srv' = [ranBefore |-> srv.ranBefore \cup Range(srv.ranNow), ranNow |-> << >>,
               sentNow |-> << >>, sentAgain |-> srv.sentAgain,
               unreported |-> srv.unreported]
    /\ up' = [UpIdle EXCEPT !.pc = "create", !.before = ledger]
    /\ UNCHANGED <<fsys, ledger, sqlCall>>
    /\ UNCHANGED notMigVars

\* CREATE TABLE IF NOT EXISTS _migrations (lines 124-131).
Up_CreateLedger ==
    /\ up.pc = "create"
    /\ \E a \in SQLAnswers :
        /\ sqlCall' = CallRecord("create", a)
        /\ srv' = [srv EXCEPT !.unreported = Unreported(a)]
        /\ IF ExecSQL(a) # "nil"
           THEN UpReturns(<< >>, "create _migrations", << >>)
           ELSE up' = [up EXCEPT !.pc = "readdir"]
    /\ UNCHANGED <<fsys, ledger, prevUp, upRuns>>
    /\ UNCHANGED notMigVars

\* fs.ReadDir, the suffix filter and sort.Strings (lines 133-143).
Up_ReadDir ==
    /\ up.pc = "readdir"
    /\ \E readFails \in BOOLEAN :
        IF readFails
        THEN UpReturns(<< >>, "read dir", << >>)
        ELSE up' = [up EXCEPT !.pc = "load", !.names = MigrationNames(fsys)]
    /\ UNCHANGED <<fsys, ledger, srv, sqlCall, prevUp, upRuns>>
    /\ UNCHANGED notMigVars

\* SELECT id FROM _migrations into appliedSet (lines 149-156).
Up_LoadApplied ==
    /\ up.pc = "load"
    /\ \E a \in SQLAnswers :
        /\ sqlCall' = CallRecord("select", a)
        /\ srv' = [srv EXCEPT !.unreported = Unreported(a)]
        /\ IF ExecSQL(a) # "nil"
           THEN UpReturns(<< >>, "load applied migrations", << >>)
           ELSE up' = [up EXCEPT !.pc = "loop", !.i = 1, !.appliedSet = QueryIDs(a, ledger)]
    /\ UNCHANGED <<fsys, ledger, prevUp, upRuns>>
    /\ UNCHANGED notMigVars

\* if _, done := appliedSet[name]; done { continue } (lines 159-161).
Up_Skip ==
    /\ up.pc = "loop"
    /\ up.i <= Len(up.names)
    /\ up.names[up.i] \in up.appliedSet
    /\ up' = [up EXCEPT !.i = up.i + 1]
    /\ UNCHANGED <<fsys, ledger, srv, sqlCall, prevUp, upRuns>>
    /\ UNCHANGED notMigVars

\* fs.ReadFile of a pending name (lines 162-166).
Up_ReadFile ==
    /\ up.pc = "loop"
    /\ up.i <= Len(up.names)
    /\ up.names[up.i] \notin up.appliedSet
    /\ \E readFails \in BOOLEAN :
        IF readFails
        THEN UpReturns(up.applied, "read", up.names[up.i])
        ELSE up' = [up EXCEPT !.pc = "apply"]
    /\ UNCHANGED <<fsys, ledger, srv, sqlCall, prevUp, upRuns>>
    /\ UNCHANGED notMigVars

\* p.SQL(ctx, sqlText, nil, WithIdempotencyKey("mig-"+name)) (lines 168-170).
Up_Apply ==
    /\ up.pc = "apply"
    /\ \E a \in SQLAnswers :
        LET name == up.names[up.i] IN
        /\ sqlCall' = CallRecord("script", a)
        /\ srv' = [srv EXCEPT
                     !.sentNow = Append(@, name),
                     !.ranNow = IF Executed(a) THEN Append(@, name) ELSE @,
                     !.sentAgain = IF name \in srv.ranBefore THEN @ \cup {name} ELSE @,
                     !.unreported = Unreported(a)]
        /\ IF ExecSQL(a) # "nil"
           THEN UpReturns(up.applied, "apply", name)
           ELSE up' = [up EXCEPT !.pc = "record"]
    /\ UNCHANGED <<fsys, ledger, prevUp, upRuns>>
    /\ UNCHANGED notMigVars

\* INSERT INTO _migrations and applied = append(applied, name) (lines 171-177).
Up_Record ==
    /\ up.pc = "record"
    /\ \E a \in SQLAnswers :
        LET name == up.names[up.i] IN
        /\ sqlCall' = CallRecord("insert", a)
        /\ srv' = [srv EXCEPT !.unreported = Unreported(a)]
        /\ ledger' = IF Executed(a) THEN ledger \cup {name} ELSE ledger
        /\ IF ExecSQL(a) # "nil"
           THEN UpReturns(up.applied, "record", name)
           ELSE up' = [up EXCEPT !.pc = "loop", !.i = up.i + 1,
                                 !.applied = Append(up.applied, name)]
    /\ UNCHANGED <<fsys, prevUp, upRuns>>
    /\ UNCHANGED notMigVars

\* return applied, nil (line 179).
Up_Return ==
    /\ up.pc = "loop"
    /\ up.i > Len(up.names)
    /\ UpReturns(up.applied, "nil", << >>)
    /\ UNCHANGED <<fsys, ledger, srv, sqlCall, prevUp, upRuns>>
    /\ UNCHANGED notMigVars

NextMigrator ==
    \/ Up_Call
    \/ Up_CreateLedger
    \/ Up_ReadDir
    \/ Up_LoadApplied
    \/ Up_Skip
    \/ Up_ReadFile
    \/ Up_Apply
    \/ Up_Record
    \/ Up_Return

SpecMigrator == InitMigrator /\ [][NextMigrator]_vars

\* ----------------------------------------------------- the backoff policy
\* normalizeBackoff, normalizeRetries, jitterSleep and nextBackoff
\* (part_011 lines 484-524) applied to configured values as the executors
\* apply them: normalize once, then jitterSleep and nextBackoff in turn.
\* A duration counts ticks of time.Duration here; the operators do not
\* depend on the unit.

\* Largest small configured InitialBackoff / MaxBackoff explored, in ticks.
MaxDuration == 4
\* Largest number of jitterSleep / nextBackoff rounds of one policy.
MaxWaits == 3

\* Client.InitialBackoff and Client.MaxBackoff as configured: negative,
\* zero, small positive values, and the two largest durations whose double
\* is not, and is, beyond the range of time.Duration.
DurationConfigs ==
    ((-1) .. MaxDuration) \cup { MaxDurationValue \div 2, MaxDurationValue \div 2 + 1 }

\* Every value of n % 1000 in randFloat64 (n >= 0 after the sign flip).
AllRandSamples == 0 .. (RandModulus - 1)

InitPolicy ==
    /\ ExecIdle
    /\ ScanIdle
    /\ PagerIdle
    /\ LogIdle
    /\ MigIdle
    /\ RestIdle
    /\ \E i \in DurationConfigs, x \in DurationConfigs, r \in RetryCounts :
         pol = [stage |-> "configured", InitialBackoff |-> i, MaxBackoff |-> x,
                MaxRetries |-> r, initial |-> 0, backoff |-> 0, maxBack |-> 0,
                retries |-> 0, m |-> 0, jitter |-> 0, waits |-> 0, prev |-> 0]

\* backoff, maxBack := normalizeBackoff(...); retries := normalizeRetries(...)
\* (part_000 lines 29-30).
Policy_Normalize ==
    /\ pol.stage = "configured"
    /\ \E nb \in { normalizeBackoff(pol.InitialBackoff, pol.MaxBackoff) } :
         pol' = [pol EXCEPT !.stage = "normalized", !.initial = nb[1], !.backoff = nb[1],
                            !.maxBack = nb[2],
                            !.retries = normalizeRetries(pol.MaxRetries)]
    /\ UNCHANGED notPolVars

\* jitterSleep(ctx, backoff, maxBack): the duration the timer is armed with.
Policy_JitterSleep ==
    /\ pol.stage = "normalized"
    /\ \E m \in AllRandSamples :
         pol' = [pol EXCEPT !.stage = "jittered", !.m = m,
                            !.jitter = jitterDuration(pol.backoff, pol.maxBack, m)]
    /\ UNCHANGED notPolVars

\* backoff = nextBackoff(backoff, maxBack)
Policy_NextBackoff ==
    /\ pol.stage = "jittered"
    /\ pol.waits < MaxWaits
    /\ pol' = [pol EXCEPT !.stage = "normalized", !.m = 0, !.jitter = 0,
                          !.backoff = nextBackoff(pol.backoff, pol.maxBack),
                          !.waits = pol.waits + 1, !.prev = pol.backoff]
    /\ UNCHANGED notPolVars

NextPolicy ==
    \/ Policy_Normalize
    \/ Policy_JitterSleep
    \/ Policy_NextBackoff

SpecPolicy == InitPolicy /\ [][NextPolicy]_vars

\* ------------------------------------------------------------ claims C21-C30

\* The names pending when the running Up was called: the migration files
\* missing from the ledger, in ascending order.
NotInLedgerAtCall(n) == n \notin up.before
PendingAtCall == SelectSeq(MigrationNames(fsys), NotInLedgerAtCall)

UpSucceeded == up.pc = "returned" /\ up.err = "nil"

\* C21: an Up that returns without error had the service execute exactly the
\* scripts pending at its call, in ascending filename order, and returns
\* exactly those names; an Up that follows a successful Up on the same files
\* sends no script and returns an empty list.
C21_UpAppliesPendingInOrder ==
    /\ UpSucceeded =>
        /\ srv.ranNow = PendingAtCall
        /\ up.applied = srv.ranNow
    /\ (prevUp.valid /\ prevUp.err = "nil") =>
        /\ srv.sentNow = << >>
        /\ up.applied = << >>

\* C22: across the Up runs made against a project, no script the service
\* executed successfully in an earlier run is sent for execution by a later
\* run.
C22_ExecutedScriptNeverSentAgain == srv.sentAgain = {}

\* The names this run skipped or completed before the name it failed at.
BeforeFailure(n) == NotInLedgerAtCall(n) /\ StringLess(n, up.failedAt)
UpFailedAtFile == up.pc = "returned" /\ up.err \in {"read", "apply", "record"}

\* C23: an Up that fails while processing file k returns exactly the files
\* pending at its call that precede k, each of them executed by the service
\* in this run and recorded in the ledger; the Up that follows a failed Up
\* sends none of the files the failed Up returned and starts with the first
\* migration file missing from the ledger.
C23_FailureKeepsProgress ==
    /\ UpFailedAtFile =>
        /\ up.applied = SelectSeq(up.names, BeforeFailure)
        /\ Range(up.applied) \subseteq Range(srv.ranNow)
        /\ Range(up.applied) \subseteq ledger
    /\ (prevUp.valid /\ prevUp.err \in {"read", "apply", "record"}) =>
        /\ Range(prevUp.applied) \cap Range(srv.sentNow) = {}
        /\ srv.sentNow # << >> =>
            /\ PendingAtCall # << >>
            /\ srv.sentNow[1] = PendingAtCall[1]

\* C24: a Client.ExecSQL call that is answered 2xx with ok: false returns a
\* non-nil error, whatever the error field holds.
C24_NotOkIsAnError ==
    (sqlCall.stmt # "none" /\ ~sqlCall.doErr /\ ~sqlCall.ok) => ~sqlCall.errNil

\* C25: normalization yields strictly positive initial and maximum backoff
\* for every configured pair, replacing a value <= 0 by the fixed default of
\* its side and keeping a positive value, and turns a negative MaxRetries
\* into 0 while keeping any other.
C25_NormalizationIsSane ==
    pol.stage \in {"normalized", "jittered"} =>
        /\ pol.initial > 0 /\ pol.maxBack > 0 /\ pol.retries >= 0
        /\ pol.InitialBackoff > 0 => pol.initial = pol.InitialBackoff
        /\ pol.InitialBackoff <= 0 => pol.initial = DefaultInitialBackoff
        /\ pol.MaxBackoff > 0 => pol.maxBack = pol.MaxBackoff
        /\ pol.MaxBackoff <= 0 => pol.maxBack = DefaultMaxBackoff
        /\ pol.MaxRetries >= 0 => pol.retries = pol.MaxRetries
        /\ pol.MaxRetries < 0 => pol.retries = 0

\* C25 witness: a zero initial backoff, a positive maximum and a negative
\* MaxRetries have been normalized.
C25_Witness ==
    /\ pol.stage = "normalized"
    /\ pol.InitialBackoff = 0 /\ pol.MaxBackoff = 1 /\ pol.MaxRetries = -1
    /\ pol.initial = DefaultInitialBackoff /\ pol.maxBack = 1 /\ pol.retries = 0

\* C26: in the streaming executor the observer calls are, attempt after
\* attempt, those of the buffered executor: the request-side Logger event
\* and BeforeHooks once before the send, the response-side Logger event and
\* AfterHooks once after the response or transport error.
C26_StreamingObserversAsBuffered ==
    call.fn = "doRequest" =>
        events = ExpectedEvents(sent)
                    \o (IF pc = "send" THEN ExpectedSide("request", "before", attempt)
                        ELSE << >>)

\* C29: a finished call made one wait less than attempts; no wait follows
\* an attempt that is the last one allowed, none is pending or made when the
\* call has returned, and with retries normalized to 0 the call makes one
\* attempt without any jitterSleep / nextBackoff.
C29_SleepsOnlyBetweenAttempts ==
    call.fn # "none" =>
        /\ (pc = "done" /\ sent >= 1) => nWaits = sent - 1
        /\ pc \in {"loop", "send"} => nWaits = attempt
        /\ pc = "sleep" => (nWaits = attempt /\ nWaits = sent - 1 /\ attempt < retries)
        /\ lastWait.valid => lastWait.after < retries
        /\ nWaits <= retries
        /\ retries = 0 => (nWaits = 0 /\ sent <= 1 /\ ~lastWait.valid)

\* C29 witness: a call with MaxRetries 2 used all three attempts and waited
\* twice.
C29_Witness ==
    /\ pc = "done" /\ cfg.MaxRetries = 2 /\ sent = 3 /\ nWaits = 2

C27_SeekFindsTopLevelRows ==
    (OnlyNextCalled /\ resBody.kind = "wf") =>
        /\ sc.lastErr = "none"
        /\ sc.inRows => dec.pos >= resBody.open
        /\ obs.yielded = FirstRows(IF obs.calls <= resBody.k THEN obs.calls ELSE resBody.k)

\* The response is an object without a rows field, or with a rows field that
\* holds no array.
NoRowsArray == resBody.kind \in {"norows", "notarray"}

\* C28: on a response object without a rows field, or whose rows field name
\* is not followed by an array-open delimiter, the first Next returns false,
\* no row is ever yielded, Err() is non-nil and the body is closed.
C28_NoRowsArrayIsAnError ==
    (NoRowsArray /\ stream = "scanner" /\ obs.calls >= 1 /\ obs.lastClose = "none") =>
        /\ obs.lastNext = "false"
        /\ obs.yielded = << >>
        /\ sc.lastErr # "none"
        /\ ~bodyOpen

\* ------------------------------------------------------------ claims C31-C39

\* The backoff min(initial x 2^i, max) of the i-th round.
DoubledBackoff(i) ==
    IF pol.initial * 2 ^ i > pol.maxBack THEN pol.maxBack ELSE pol.initial * 2 ^ i

\* C31: nextBackoff(b, max) is min(2b, max) for every b > 0 and max > 0 of
\* time.Duration, so that after i >= 1 rounds without Retry-After the
\* backoff is min(initial x 2^i, max).
C31_NextBackoffIsCappedDouble ==
    (pol.stage \in {"normalized", "jittered"} /\ pol.waits >= 1) =>
        /\ pol.prev > 0 =>
              pol.backoff = (IF 2 * pol.prev > pol.maxBack THEN pol.maxBack ELSE 2 * pol.prev)
        /\ pol.backoff = DoubledBackoff(pol.waits)

FailureStepTaken(o, a, b, r) ==
    LET api == At(parseAPIError(o.status, o.body), a)
        retryableStatus == o.t = "res" /\ (o.status = 429 \/ o.status \div 100 = 5)
        ra == IF o.t = "res" THEN parseRetryAfter(o.ra) ELSE 0
        e == IF o.t = "err" THEN At(TransportErr(o.cause), a) ELSE Wrap(api)
    IN  IF o.t = "res" /\ ~retryableStatus
        THEN /\ ret' = RetErr(api) /\ pc' = "done"
             /\ UNCHANGED <<attempt, backoff, lastErr>>
        ELSE /\ lastErr' = e
             /\ backoff' = (IF retryableStatus /\ ra > 0 /\ ra > b THEN ra ELSE b)
             /\ IF a < r
                THEN pc' = "sleep" /\ attempt' = a /\ ret' = ret
                ELSE /\ pc' = "done" /\ attempt' = a + 1
                     /\ ret' = RetExhausted(r + 1, e)

C33_FailedAttempt ==
    /\ pc = "send" /\ sent' = sent + 1
    /\ hist'.last.t = "err" \/ hist'.last.status \div 100 # 2

Calls == {"a", "b"}

\* What HTTPClient.Do produces for an attempt of a concurrent call.
ConcOutcomes ==
    { TransportOutcome("net"),
      Response(StatusTooManyRequests, "good", [form |-> "secs", n |-> 1]),
      Response(503, "bad", NoHeader),
      Response(200, "good", NoHeader),
      Response(404, "good", NoHeader) }

\* The options a caller passes to call i: none, or an idempotency key of its own.
ConcOptionLists(i) == { << >>, << WithIdempotencyKey(i) >> }

ConcClients ==
    { [MaxRetries |-> r, InitialBackoff |-> 100, MaxBackoff |-> 300,
       Logger |-> FALSE, nHooks |-> 0,
       APIKey |-> "key-1", HolderID |-> "holder-1", ProjectName |-> "",
       UserAgent |-> DefaultUserAgent] : r \in RetryCounts }

\* An authHeaders that hands every call the one map kept on the Client.
AuthHeaderAddr_Cached(i) == "client"

\* h := http.Header{} (part_011 line 365): authHeaders allocates a map of
\* its own on every call; the address stands for that map.
AuthHeaderAddr(i) == i

\* The locals of one invocation (part_000 lines 28-33) before it is made.
NoFrame == [pc |-> "idle", attempt |-> 0, backoff |-> 0, maxBack |-> 0, retries |-> 0,
            lastErr |-> NoErr, ret |-> Pending, sent |-> 0, reqs |-> << >>]

\* The locals at the loop head of the first attempt (part_000 lines 28-33).
StartFrame(c) ==
    [pc |-> "send", attempt |-> 0,
     backoff |-> normalizeBackoff(c.InitialBackoff, c.MaxBackoff)[1],
     maxBack |-> normalizeBackoff(c.InitialBackoff, c.MaxBackoff)[2],
     retries |-> normalizeRetries(c.MaxRetries),
     lastErr |-> NoErr, ret |-> Pending, sent |-> 0, reqs |-> << >>]

\* The locals after one attempt of doJSON with out == nil: the request with
\* header h was sent and ended with outcome o (part_000 lines 34-111).
AttemptResult(f, o, h) ==
    LET g == [f EXCEPT !.sent = @ + 1, !.reqs = Append(@, h)]
        apiErr == At(parseAPIError(o.status, o.body), f.attempt)
        e == IF o.t = "err" THEN At(TransportErr(o.cause), f.attempt) ELSE Wrap(apiErr)
        b == IF o.t = "res" THEN RetryAfterBackoff(parseRetryAfter(o.ra), f.backoff)
             ELSE f.backoff
    IN  CASE o.t = "res" /\ is2xx(o.status) -> [g EXCEPT !.ret = RetNil, !.pc = "done"]
          [] o.t = "res" /\ ~isRetryableStatus(o.status) ->
                [g EXCEPT !.ret = RetErr(apiErr), !.pc = "done"]
          [] OTHER ->
                IF SleepCond(f.attempt, f.retries)
                THEN [g EXCEPT !.lastErr = e, !.backoff = b, !.pc = "sleep"]
                ELSE IF LoopCond(f.attempt + 1, f.retries)
                THEN [g EXCEPT !.lastErr = e, !.backoff = b, !.attempt = @ + 1]
                ELSE [g EXCEPT !.lastErr = e, !.backoff = b, !.attempt = @ + 1,
                               !.ret = RetExhausted(f.retries + 1, e), !.pc = "done"]

\* The locals after jitterSleep, nextBackoff and the loop increment
\* (part_000 lines 105-108, 33).
AfterWait(f) ==
    [f EXCEPT !.backoff = nextBackoff(f.backoff, f.maxBack), !.attempt = @ + 1,
              !.pc = "send"]

InitConc ==
    /\ ExecIdle
    /\ ScanIdle
    /\ PagerIdle
    /\ LogIdle
    /\ MigIdle
    /\ PolIdle
    /\ TableIdle
    /\ HelperIdle
    /\ \E c \in ConcClients :
         conc = [on |-> TRUE, c |-> c,
                 heap |-> [x \in Calls \cup {"client"} |-> [used |-> FALSE, h |-> EmptyHeader]],
                 opts |-> [i \in Calls |-> << >>],
                 loc |-> [i \in Calls |-> NoFrame],
                 trace |-> [i \in Calls |-> << >>],
                 overlapped |-> FALSE]

\* An API method on call i: h := c.authHeaders(); mergeHeaders(h,
\* buildHeaders(nil, opts...)) and the entry into doJSON up to the loop
\* head (tables.go lines 37-39, part_000 lines 15-33).
Conc_Start(i) ==
    /\ conc.loc[i].pc = "idle"
    /\ \E os \in ConcOptionLists(i) :
        LET a == AuthHeaderAddr(i)
            h == IF conc.heap[a].used THEN conc.heap[a].h ELSE authHeaders(conc.c)
        IN  conc' = [conc EXCEPT
                        !.heap[a] = [used |-> TRUE, h |-> mergeHeaders(h, buildHeaders(os))],
                        !.opts[i] = os,
                        !.loc[i] = StartFrame(conc.c)]
    /\ UNCHANGED notConcVars

\* One attempt of call i: the request is built from the Client and the
\* call's header map, sent, and its outcome handled (part_000 lines 34-111).
Conc_Send(i) ==
    /\ conc.loc[i].pc = "send"
    /\ \E o \in ConcOutcomes :
         conc' = [conc EXCEPT
                     !.loc[i] = AttemptResult(@, o,
                                    RequestHeader(conc.c, conc.heap[AuthHeaderAddr(i)].h)),
                     !.trace[i] = Append(@, o),
                     !.overlapped = @ \/ \E j \in Calls \ {i} :
                                             conc.loc[j].pc \in {"send", "sleep"}
                                             /\ conc.loc[j].sent > 0]
    /\ UNCHANGED notConcVars

\* The wait of call i between two attempts (part_000 lines 105-108).
Conc_Sleep(i) ==
    /\ conc.loc[i].pc = "sleep"
    /\ conc' = [conc EXCEPT !.loc[i] = AfterWait(@)]
    /\ UNCHANGED notConcVars

NextConc ==
    \/ \E i \in Calls : Conc_Start(i)
    \/ \E i \in Calls : Conc_Send(i)
    \/ \E i \in Calls : Conc_Sleep(i)

SpecConc == InitConc /\ [][NextConc]_vars

\* ---- C34 ----
RECURSIVE RunFrom(_, _, _)
\* Call alone: the locals after the outcomes tr, one per attempt, each
\* request carrying header h.
RunFrom(f, h, tr) ==
    IF tr = << >> THEN f
    ELSE The({ RunFrom(g, h, Tail(tr)) :
                  g \in { AttemptResult(IF f.pc = "sleep" THEN AfterWait(f) ELSE f, tr[1], h) } })

\* Call i run alone on the same Client with the same options and outcomes.
RunAlone(i) ==
    RunFrom(StartFrame(conc.c), RequestHeader(conc.c, CallHeaders(conc.c, conc.opts[i])),
            conc.trace[i])

\* C34: under every interleaving of two calls on one Client, the locals of
\* each call (attempt counter, backoff, last error), the requests it has
\* sent with their headers and its result are those of the same call run
\* alone on its own outcomes; between two attempts the call is either
\* before or after its wait.
C34_CallsIndependent ==
    conc.on =>
        \A i \in Calls : conc.loc[i].pc # "idle" =>
            \/ conc.loc[i] = RunAlone(i)
            \/ RunAlone(i).pc = "sleep" /\ conc.loc[i] = AfterWait(RunAlone(i))

\* C34 witness: both calls are finished after attempts made while the other
\* was in flight; a gave up after three failures carrying its idempotency
\* key, b succeeded at its second attempt without one.
C34_Witness ==
    /\ conc.on /\ conc.overlapped
    /\ conc.loc["a"].pc = "done" /\ conc.loc["b"].pc = "done"
    /\ conc.loc["a"].ret.k = "exhausted" /\ conc.loc["a"].sent = 3
    /\ conc.loc["b"].ret.k = "nil" /\ conc.loc["b"].sent = 2
    /\ conc.opts["a"] = << WithIdempotencyKey("a") >> /\ conc.opts["b"] = << >>
    /\ HeaderGet(conc.loc["a"].reqs[3], "x-idempotency-key") = "a"
    /\ HeaderGet(conc.loc["b"].reqs[2], "x-idempotency-key") = ""

\* ------------------------------------------------- a Pager over a static table
\* Project.Browse answered from a table that does not change: the service
\* returns the rows after the offset, at most limit of them and at most its
\* own page cap. Row k of the table is the number k.

MaxTableRows == 4

\* Starting offsets: the first row, inside the table, beyond its end.
TableStarts == {0, 1, MaxTableRows + 1}

\* len(resp.Rows) for Browse(limit, offset) with limit > 0, offset >= 0
\* (tables.go lines 24-31 send both values; the service pages by them).
TableRows(t, limit, offset) ==
    Min(Min(limit, t.cap), Max(t.rows - offset, 0))

InitPagerTable ==
    /\ ExecIdle
    /\ ScanIdle
    /\ LogIdle
    /\ MigIdle
    /\ PolIdle
    /\ ConcIdle
    /\ HelperIdle
    /\ tbl \in [rows : 0 .. MaxTableRows, cap : 1 .. MaxLimit]
    /\ pg \in [Limit : PagerLimits, Offset : TableStarts, Done : {FALSE}]
    /\ pgStart = pg.Offset
    /\ fetches = << >>
    /\ pgLast = [called |-> FALSE, before |-> pg, fetched |-> FALSE, ret |-> "none", rows |-> 0]
    /\ pgDoneBy = "none"

\* Pager.Next (pager.go lines 16-30) with Browse answered from the table.
Pager_NextOnTable ==
    /\ IF PagerReturnsEarly(pg)
       THEN PagerNextDone
       ELSE PagerNextFetched(TableRows(tbl, pg.Limit, pg.Offset))
    /\ UNCHANGED pgStart
    /\ UNCHANGED notPagerVars

NextPagerTable == Pager_NextOnTable

\* The caller calls Next again and again.
SpecPagerTable ==
    InitPagerTable /\ [][NextPagerTable]_vars /\ WF_vars(Pager_NextOnTable)

\* ---- C35 ----
RECURSIVE PagesConcat(_)
\* The rows of the pages fetched so far, in the order returned.
PagesConcat(fs) ==
    IF fs = << >> THEN << >>
    ELSE [k \in 1 .. fs[1].rows |-> fs[1].offset + k] \o PagesConcat(Tail(fs))

\* Rows a+1 .. b of the table in order.
TableSlice(a, b) == [k \in 1 .. Max(b - a, 0) |-> a + k]

C35_Pages ==
    /\ PagesConcat(fetches) = TableSlice(pgStart, pg.Offset)
    /\ pg.Offset <= Max(tbl.rows, pgStart)
    /\ pg.Done => PagesConcat(fetches) = TableSlice(pgStart, tbl.rows)
    /\ pg.Done => fetches[Len(fetches)].rows = 0
    /\ (pgLast.fetched /\ pgLast.rows > 0) => ~pg.Done

\* C35: over a static table of R rows, with Limit > 0, a starting offset
\* >= 0 and no fetch errors, a caller that keeps calling Pager.Next gets nil
\* in the end; the pages returned, put together, are the rows from the
\* starting offset to the end of the table, in order, each once; a page
\* with rows, shorter than Limit or not, leaves the Pager not done, and the
\* Pager is done only after an empty page.
C35_PagerCoversTable ==
    /\ [](tbl.cap > 0 => C35_Pages)
    /\ (tbl.cap > 0) ~> (pg.Done /\ pgLast.called /\ pgLast.ret = "nil")

\* C35 witness: the table of three rows read with Limit 2 from offset 0:
\* pages of 2, 1 and 0 rows, the short page was followed by another fetch.
C35_Witness ==
    /\ tbl.rows = 3 /\ tbl.cap = 2 /\ pg.Limit = 2 /\ pgStart = 0
    /\ pg.Done /\ pgLast.ret = "nil"
    /\ Len(fetches) = 3
    /\ fetches[1].rows = 2 /\ fetches[2].rows = 1 /\ fetches[3].rows = 0
    /\ PagesConcat(fetches) = << 1, 2, 3 >>

\* ---- C36 ----
\* C36: after the "request" Logger call the outgoing request holds the
\* headers it was built with, the real x-api-key among them; the map the
\* Logger got has the same header names, the same values for every header
\* other than x-api-key, and the masked text for x-api-key.
C36_RedactionOnCopy ==
    logged # EmptyHeader =>
        /\ outgoing = RequestHeader([UserAgent |-> DefaultUserAgent],
                          HeaderSet(HeaderSet(EmptyHeader, "x-api-key", apiKey),
                                    "x-holder-id", HolderBytes))
        /\ HeaderValues(outgoing, "x-api-key") = << apiKey >>
        /\ DOMAIN logged = DOMAIN outgoing
        /\ \A k \in DOMAIN outgoing : ~IsAPIKeyHeader(k) => logged[k] = outgoing[k]
        /\ HeaderValues(logged, "X-API-KEY") = << RedactValue(apiKey) >>

\* C36 witness: a key of sixteen bytes was logged masked, the request still
\* carries it, and the other headers are the same in both maps.
C36_Witness ==
    /\ logged # EmptyHeader
    /\ Len(apiKey) = 16
    /\ HeaderGet(outgoing, "x-api-key") = apiKey
    /\ HeaderGet(logged, "x-api-key") # apiKey
    /\ HeaderGet(logged, "x-holder-id") = HolderBytes
    /\ HeaderGet(outgoing, "x-holder-id") = HolderBytes
    /\ HeaderGet(logged, "User-Agent") = DefaultUserAgent

\* ------------------------------------------- helper functions on their own
\* parseRetryAfter, parseAPIError with APIError.Error, and randFloat64,
\* each applied once to an input drawn from the sets below.

MaxHeaderValue == 15

\* Retry-After values: empty, unparseable, integers (negative ones and ones
\* whose product with time.Second exceeds the largest time.Duration
\* included), HTTP-dates before and after time.Now().
RetryAfterValues ==
    { NoHeader, [form |-> "junk", n |-> 0] }
    \cup { [form |-> "secs", n |-> k] : k \in (0 - MaxHeaderValue) .. MaxHeaderValue }
    \cup { [form |-> "secs", n |-> MaxDurationValue \div 1000 + k] : k \in 0 .. 2 }
    \cup { [form |-> "date", n |-> k] : k \in (0 - MaxHeaderValue) .. MaxHeaderValue }
    \cup { [form |-> "date", n |-> MaxDurationValue] }

InitRetryAfter ==
    \E v \in RetryAfterValues :
        helper = [f |-> "parseRetryAfter", called |-> FALSE, in |-> v, out |-> 0]

\* d := parseRetryAfter(res.Header.Get("Retry-After")) (part_011 lines 433-446)
Helper_parseRetryAfter ==
    /\ helper.f = "parseRetryAfter" /\ ~helper.called
    /\ helper' = [helper EXCEPT !.called = TRUE, !.out = parseRetryAfter(helper.in)]
    /\ UNCHANGED notHelperVars

\* Error bodies. A body is invalid JSON (empty, HTML, truncated), valid JSON
\* that is no object (array, number, string), the literal null, or an
\* object; of an object the model keeps what its message, error, code and
\* details members are: absent, null, a string (empty or not), a number,
\* and for details also an object.
BodyStrings == { "", "m1", "e1", "c1" }
StringMembers ==
    { [is |-> "absent"], [is |-> "null"], [is |-> "number"] }
    \cup { [is |-> "string", s |-> s] : s \in BodyStrings }
DetailMembers == { [is |-> "absent"], [is |-> "number"], [is |-> "object"] }
ErrorBodies ==
    { [kind |-> "invalid"], [kind |-> "nonobject"], [kind |-> "null"] }
    \cup { [kind |-> "object", message |-> m, error |-> e, code |-> c, details |-> d] :
             m \in StringMembers \ { [is |-> "string", s |-> "c1"] },
             e \in { x \in StringMembers : x.is # "string" \/ x.s \in {"", "e1"} },
             c \in { x \in StringMembers : x.is # "string" \/ x.s \in {"", "c1"} },
             d \in DetailMembers }
ErrorStatuses == { 400, 404, 429, 500 }

\* The zero value of the msg struct of parseAPIError (part_011 lines 414-419).
ZeroMsg == [Message |-> "", Error |-> "", Code |-> "", Details |-> [is |-> "absent"]]

\* encoding/json storing member x into a string field: a string is stored,
\* null and an absent member leave the field, anything else is a type
\* error that leaves the field and lets the decoding go on.
StringField(x) == IF x.is = "string" THEN x.s ELSE ""

\* json.Unmarshal(b, &msg): the error result (ok when nil) and msg.
Unmarshal(b) ==
    CASE b.kind \in {"invalid", "nonobject"} -> [ok |-> FALSE, msg |-> ZeroMsg]
      [] b.kind = "null" -> [ok |-> TRUE, msg |-> ZeroMsg]
      [] OTHER ->
            [ok |-> \A x \in {b.message, b.error, b.code} : x.is # "number",
             msg |-> [Message |-> StringField(b.message), Error |-> StringField(b.error),
                      Code |-> StringField(b.code), Details |-> b.details]]

\* A parseAPIError that copies msg whatever json.Unmarshal returned.
UnmarshalSucceeded_Unchecked(u) == TRUE

\* if json.Unmarshal(b, &msg) == nil (part_011 line 420)
UnmarshalSucceeded(u) == u.ok

\* parseAPIError(code, b) with the fields taken from the body
\* (part_011 lines 412-430).
parseAPIErrorFields(code, b) ==
    LET u == Unmarshal(b)
        apiErr == [StatusCode |-> code, Body |-> b, Message |-> "", Code |-> "",
                   Details |-> [is |-> "absent"]]
    IN  IF UnmarshalSucceeded(u)
        THEN [apiErr EXCEPT
                 !.Message = IF u.msg.Message # "" THEN u.msg.Message
                             ELSE IF u.msg.Error # "" THEN u.msg.Error ELSE @,
                 !.Code = u.msg.Code,
                 !.Details = u.msg.Details]
        ELSE apiErr

\* (*APIError).Error (errors.go lines 14-23): the parts of the rendered
\* text, "warlot API <status> (<code>): <msg>" or "warlot API <status>: <msg>".
APIErrorText(e) ==
    LET msg == IF e.Message = "" THEN e.Body ELSE e.Message
    IN  IF e.Code # "" THEN << "warlot API", e.StatusCode, e.Code, msg >>
        ELSE << "warlot API", e.StatusCode, msg >>

InitAPIError ==
    \E code \in ErrorStatuses, b \in ErrorBodies :
        helper = [f |-> "parseAPIError", called |-> FALSE, code |-> code, in |-> b,
                  out |-> parseAPIErrorFields(0, [kind |-> "invalid"]),
                  text |-> << >>]

\* apiErr := parseAPIError(res.StatusCode, body); apiErr.Error()
\* (part_000 lines 88, 174; errors.go lines 14-23).
Helper_parseAPIError ==
    /\ helper.f = "parseAPIError" /\ ~helper.called
    /\ \E e \in { parseAPIErrorFields(helper.code, helper.in) } :
         helper' = [helper EXCEPT !.called = TRUE, !.out = e, !.text = APIErrorText(e)]
    /\ UNCHANGED notHelperVars

\* A 64-bit word is the set of the positions of its one bits, bit 63 the sign.
MaxBitsSet == 2
WordBits == 0 .. 63
MinInt64Word == {63}

RECURSIVE WordsWithBits(_)
\* The words with at most k one bits.
WordsWithBits(k) ==
    IF k = 0 THEN { {} }
    ELSE { w \cup {b} : w \in WordsWithBits(k - 1), b \in WordBits }

\* Clock readings explored as bit patterns: every word with at most
\* MaxBitsSet one bits, and every word with at most MaxBitsSet zero bits.
ClockReadings ==
    WordsWithBits(MaxBitsSet) \cup { WordBits \ w : w \in WordsWithBits(MaxBitsSet) }

\* n << k, n >> k on int64 (the right shift copies the sign bit), n ^ m.
ShiftLeft(w, k) == { b + k : b \in { x \in w : x + k <= 63 } }
ShiftRight(w, k) ==
    { b - k : b \in { x \in w : x >= k } } \cup (IF 63 \in w THEN (64 - k) .. 63 ELSE {})
Xor(w, v) == (w \ v) \cup (v \ w)

\* -n on int64: two's complement; -MinInt64 is MinInt64.
Negate(w) ==
    IF w = {} THEN {}
    ELSE LET low == CHOOSE b \in w : \A x \in w : b <= x
         IN  {low} \cup { x \in WordBits : x > low /\ x \notin w }

\* The three xorshift steps of randFloat64 (part_011 lines 474-476).
XorShift(n) ==
    LET n1 == Xor(n, ShiftLeft(n, 13))
        n2 == Xor(n1, ShiftRight(n1, 7))
    IN  Xor(n2, ShiftLeft(n2, 17))

\* A randFloat64 without the sign flip.
AbsIfNegative_Omitted(w) == w

\* if n < 0 { n = -n } (part_011 lines 477-479)
AbsIfNegative(w) == IF 63 \in w THEN Negate(w) ELSE w

\* 2^b % 1000 for b in 0 .. 63, from factors 2^30 that fit 32-bit integers.
Pow2Mod1000(b) ==
    LET p30 == (2 ^ 30) % RandModulus
    IN  CASE b < 30 -> (2 ^ b) % RandModulus
          [] b < 60 -> (p30 * ((2 ^ (b - 30)) % RandModulus)) % RandModulus
          [] OTHER -> (((p30 * p30) % RandModulus) * ((2 ^ (b - 60)) % RandModulus)) % RandModulus

RECURSIVE UnsignedMod1000(_)
\* The word read as an unsigned number, modulo 1000.
UnsignedMod1000(w) ==
    IF w = {} THEN 0
    ELSE LET b == CHOOSE x \in w : TRUE
         IN  (Pow2Mod1000(b) + UnsignedMod1000(w \ {b})) % RandModulus

\* n % 1000 on int64: Go's remainder has the sign of n.
Rem1000(w) ==
    IF 63 \in w THEN 0 - UnsignedMod1000(Negate(w)) ELSE UnsignedMod1000(w)

\* randFloat64 for the clock reading n (part_011 lines 472-481): the
\* result is float64(m) / 1000.0 for the m returned here.
randFloat64Thousandths(n) == Rem1000(AbsIfNegative(XorShift(n)))

InitRand ==
    \E n \in ClockReadings :
        helper = [f |-> "randFloat64", called |-> FALSE, in |-> n, xs |-> {}, out |-> 0]

\* randFloat64() with time.Now().UnixNano() = helper.in (part_011 lines 472-481)
Helper_randFloat64 ==
    /\ helper.f = "randFloat64" /\ ~helper.called
    /\ helper' = [helper EXCEPT !.called = TRUE, !.xs = XorShift(helper.in),
                                !.out = randFloat64Thousandths(helper.in)]
    /\ UNCHANGED notHelperVars

InitHelpers ==
    /\ ExecIdle
    /\ ScanIdle
    /\ PagerIdle
    /\ LogIdle
    /\ MigIdle
    /\ PolIdle
    /\ ConcIdle
    /\ TableIdle
    /\ (InitRetryAfter \/ InitAPIError \/ InitRand)

NextHelpers ==
    \/ Helper_parseRetryAfter
    \/ Helper_parseAPIError
    \/ Helper_randFloat64

SpecHelpers == InitHelpers /\ [][NextHelpers]_vars

\* ---- C37 ----
\* C37: parseRetryAfter never returns a negative duration: an integer
\* n >= 0 gives n seconds (1000 ticks each), a date gives the time until it
\* when that is positive, and an empty value, a negative integer, a past
\* date or an unparseable value gives zero.
C37_RetryAfterNeverNegative ==
    (helper.f = "parseRetryAfter" /\ helper.called) =>
        /\ helper.out >= 0
        /\ helper.out = CASE helper.in.form = "secs" /\ helper.in.n >= 0 -> helper.in.n * 1000
                          [] helper.in.form = "date" /\ helper.in.n > 0 -> helper.in.n
                          [] OTHER -> 0

\* ---- C38 ----
\* The body is a JSON object whose message, error and code members, where
\* present, are strings or null.
C38_ParsesAsExpected(b) ==
    b.kind = "object" /\ \A x \in {b.message, b.error, b.code} : x.is # "number"

C38_StringOf(x) == IF x.is = "string" THEN x.s ELSE ""

\* C38: the APIError of a non-2xx response has the response's status code
\* and its body as read; when the body is the expected JSON object, Message
\* is its message member if that is a non-empty string and its error member
\* otherwise, and Code and Details are its members; when the body does not
\* parse as that object, Message, Code and Details are empty and Error()
\* renders the status and the raw body.
C38_APIErrorFields ==
    (helper.f = "parseAPIError" /\ helper.called) =>
        /\ helper.out.StatusCode = helper.code
        /\ helper.out.Body = helper.in
        /\ IF C38_ParsesAsExpected(helper.in)
           THEN /\ helper.out.Message =
                      (IF C38_StringOf(helper.in.message) # ""
                       THEN C38_StringOf(helper.in.message)
                       ELSE C38_StringOf(helper.in.error))
                /\ helper.out.Code = C38_StringOf(helper.in.code)
                /\ helper.out.Details = helper.in.details
           ELSE /\ helper.out.Message = ""
                /\ helper.out.Code = ""
                /\ helper.out.Details = [is |-> "absent"]
                /\ helper.text = << "warlot API", helper.code, helper.in >>

\* C38 witness: a 500 whose body has a number for message and strings for
\* error and code: the body is not the expected object, the fields are
\* empty and the text shows the raw body.
C38_Witness ==
    /\ helper.f = "parseAPIError" /\ helper.called
    /\ helper.code = 500
    /\ helper.in.kind = "object"
    /\ helper.in.message.is = "number"
    /\ helper.in.error = [is |-> "string", s |-> "e1"]
    /\ helper.in.code = [is |-> "string", s |-> "c1"]
    /\ helper.out.Message = "" /\ helper.out.Code = ""
    /\ helper.text = << "warlot API", 500, helper.in >>

\* ---- C39 ----
\* C39: for every clock reading randFloat64 returns m / 1000 with
\* 0 <= m < 1000, a value in [0, 1); no reading has the minimum signed
\* integer as its xorshift result, the one value the sign flip leaves
\* negative.
C39_RandInUnitInterval ==
    (helper.f = "randFloat64" /\ helper.called) =>
        /\ 0 <= helper.out /\ helper.out < RandModulus
        /\ helper.xs # MinInt64Word

\* C39 witness: the reading 2^46, whose xorshift result is negative, gave a
\* value in (0, 1).
C39_Witness ==
    /\ helper.f = "randFloat64" /\ helper.called
    /\ helper.in = {46}
    /\ 63 \in helper.xs
    /\ helper.out > 0 /\ helper.out < RandModulus

====
